---- MODULE Spec2Model ----
(***************************************************************************)
(* Asset synchronisation pipeline of bricksdeal-api (tools/python):        *)
(* bricks_deal_crawl/catalog/extract.py (ProxyManager, fetcher, upload,    *)
(* process_image_urls, update_csv_with_new_urls, rebuild_image_mapping,    *)
(* main) and the two checkpoint controllers continue_extract.py.           *)
(*                                                                         *)
(* The durable files (catalog CSVs, image_mapping.json,                    *)
(* failed_downloads.json, extract_progress.json, the local image           *)
(* directory, the R2 bucket) are state; one command runs at a time and is  *)
(* followed step by step through pc.                                       *)
(***************************************************************************)
EXTENDS Integers, Sequences, FiniteSets, TLC

\* ------------------------------------------------------------------ bounds
NumSets == 2
NumMinifigs == 1
NumProxies == 1
MaxBatch == 2
MaxRuns == 2
PoolSize == 3
MaxIndex == 6

\* ------------------------------------------------------- program constants
max_retries == 3
FailureThreshold == 2

\* ---------------------------------------------------------------- values
ItemClasses == {"sets", "minifigs"}

\* A URL is a record; t tells what kind of string it is:
\*   "src"   a catalog image URL, https://cdn.rebrickable.com/media/sets/<id>.jpg
\*   "cf"    CLOUDFLARE_PUBLIC_URL/catalog/<kind>/<filename>
\*   "guess" a source URL reverse-derived by rebuild_image_mapping that is no
\*           catalog URL;  "none" is Python's None (an upload that failed)
SrcUrl(kind, id) == [t |-> "src", kind |-> kind, n |-> id, v |-> 0]
NoneUrl == [t |-> "none", kind |-> "set", n |-> 0, v |-> 0]

\* Catalog content (the rows the .gz feed extracts to); row order is id order.
\* Display names are not unique in the catalog: set rows 1 and 2 carry the
\* same name (and theme), rows 3 and 4 the next name, and so on; minifig i
\* carries the name i.
SetName(i) == (i + 1) \div 2
MinifigName(i) == i
\* A row holds the item number, the display name and the img_url column.
OriginalSetsCsv ==
  [i \in 1..NumSets |-> [num |-> i, name |-> SetName(i), img_url |-> SrcUrl("set", i)]]
OriginalMinifigsCsv ==
  [i \in 1..NumMinifigs |->
     [num |-> i, name |-> MinifigName(i), img_url |-> SrcUrl("minifig", i)]]

Min(a, b) == IF a < b THEN a ELSE b
Range(f) == {f[x] : x \in DOMAIN f}
EmptyCount == [x \in {} |-> 0]
EmptyMap == [x \in {} |-> NoneUrl]
Put(m, k, val) == [x \in DOMAIN m \cup {k} |-> IF x = k THEN val ELSE m[x]]

\* sets_updated.csv / minifigs_updated.csv (739, 768)
NoFile == [exists |-> FALSE, rows |-> <<>>]
NoTempFiles == [sets |-> NoFile, minifigs |-> NoFile]

\* -------------------------------------------------------------- variables
VARIABLES
  setsCsv, minifigsCsv,     \* rows of sets.csv / minifigs.csv
  tempCsv,                  \* sets_updated.csv / minifigs_updated.csv
  mappingFile,              \* image_mapping.json
  failedFile,               \* failed_downloads.json
  progressFile,             \* extract_progress.json
  truncated,                \* files a json.dump was interrupted in
  localFiles,               \* *.jpg in output/catalog-images
  r2,                       \* object keys in the R2 bucket
  proxiesFile,              \* input/proxies.csv and the Oxylabs endpoints
  pc, args,                 \* the running command and its arguments
  progress,                 \* continue_extraction: progress loaded at start
  pm,                       \* the ProxyManager of this process
  image_mapping, all_urls, i, retry_count,
  successful, failed, skipped, failed_downloads,
  update_step,              \* update_csv_with_new_urls: the statement reached
  image_files,              \* rebuild_image_mapping: files still to visit
  processed_item_ids,       \* extract_catalog_data.py: images counted per item id
  futures,                  \* extract_catalog_data.py: tasks submitted to the executor
  threads,                  \* scrape_lego_direct.py: the executor's worker threads
  processedUrlsFile,        \* scrape_lego_direct.py: output/summaries/processed_urls.json
  printed,                  \* test_multiple_images: file names printed
  hist                      \* history of the run, for stating properties

durable == <<setsCsv, minifigsCsv, tempCsv, mappingFile, failedFile, progressFile, truncated,
             localFiles, r2,
             proxiesFile>>
batch == <<image_mapping, all_urls, i, retry_count, successful, failed, skipped, failed_downloads,
           update_step>>
executor == <<processed_item_ids, futures, threads, processedUrlsFile>>
vars == <<durable, pc, args, progress, pm, batch, image_files, executor, printed, hist>>

\* ------------------------------------------------------------ key and URL
\* create_seo_friendly_filename: "-".join([prefix, clean_name]) + ext.  The
\* result depends on the prefix (lego-<theme>- for a set, lego-minifig- for a
\* minifig) and on the display name only; all sets of the modelled catalog
\* are of one theme and every image is a .jpg.
create_seo_friendly_filename(kind, name) == [kind |-> kind, name |-> name]
ObjectKey(item_type, file) == [type |-> item_type, file |-> file]
PublicUrl(key) ==
  [t |-> "cf", kind |-> key.type, n |-> key.file.name,
   v |-> IF key.file.kind = "minifig" THEN 1 ELSE 0]

TaskName(task) == IF task.type = "set" THEN SetName(task.id) ELSE MinifigName(task.id)
TaskFilenameNumbered(task) ==
  create_seo_friendly_filename(task.type, TaskName(task) + Cardinality(DOMAIN image_mapping))
TaskFilename(task) == create_seo_friendly_filename(task.type, TaskName(task))
TaskObjectKey(task) == ObjectKey(task.type, TaskFilename(task))

is_valid_image_url(u) == u.t \in {"src", "cf", "guess"}
IsCloudflareUrl(u) == u.t = "cf"

\* ------------------------------------------------- scan and window (511-583)
CollectUrls(csv, kind) ==
  LET rows == [k \in 1..Len(csv) |-> [url |-> csv[k].img_url, type |-> kind, id |-> csv[k].num]]
  IN  SelectSeq(rows, LAMBDA r : is_valid_image_url(r.url) /\ ~IsCloudflareUrl(r.url))

\* Python s[from:to]
Slice(s, from, to) == SubSeq(s, from + 1, Min(to, Len(s)))

\* limit = 0 stands for None
ScanWindow(sets, minifigs, minifigs_only, limit, start_index, batch_size) ==
  LET all0 == (IF minifigs_only THEN <<>> ELSE CollectUrls(sets, "set"))
                 \o CollectUrls(minifigs, "minifig")
      all1 == IF limit > 0 THEN Slice(all0, 0, limit) ELSE all0
  IN  IF batch_size > 0 THEN Slice(all1, start_index, start_index + batch_size) ELSE all1

\* The idempotency gate of process_image_urls: "if url in image_mapping"
AlreadyProcessedNever(url, mapping) == FALSE
AlreadyProcessed(url, mapping) == url \in DOMAIN mapping

\* ------------------------------------------------------------ ProxyManager
\* A pool entry is a proxy URL: entry id of the list, written in one of the
\* forms get_proxy tells apart: "http" is http://host:port, "https" is
\* https://host:port, "bare" is host:port without a scheme.
\* NoProxy is the empty dict {} get_proxy returns when it has nothing to give.
ProxyForms == {"http", "https", "bare"}
NoProxy == [id |-> 0, form |-> "none"]

\* get_proxy 173-191: the keys of the proxies dict built for a non-Oxylabs
\* entry, {scheme: proxy_url} when it starts with a scheme and
\* {'http': 'http://' + proxy_url, 'https': 'https://' + proxy_url} otherwise
ProxyConfig(p) ==
  IF p = NoProxy THEN {}
  ELSE IF p.form = "bare" THEN {"http", "https"}
  ELSE {p.form}

\* download_and_optimize_image 364-369: the string the attempt is reported
\* under, current_proxy['http'] if the dict has that key, else
\* current_proxy['https']; for host:port this is http://host:port
current_proxy_url(p) ==
  IF p = NoProxy THEN NoProxy
  ELSE IF "http" \in ProxyConfig(p) THEN [id |-> p.id, form |-> "http"]
  ELSE p

\* The scheme of a catalog image URL (https://cdn.rebrickable.com/media/...)
UrlScheme(url) == "https"

NewProxyManager(use_proxies, force_own_ip, pool, order) ==
  [use_proxies |-> use_proxies, force_own_ip |-> force_own_ip,
   proxies |-> IF use_proxies THEN pool ELSE <<>>,
   order |-> IF use_proxies THEN order ELSE <<>>,
   working |-> {}, failed |-> [p \in {} |-> [count |-> 0, recent |-> FALSE]],
   current_index |-> 0]

NoManager == NewProxyManager(FALSE, FALSE, <<>>, <<>>)

\* list(self.working_proxies): the set in this process's iteration order
WorkingListAll(m) == m.order
WorkingList(m) == SelectSeq(m.order, LAMBDA p : p \in m.working)

InCooldown(m, p) ==
  /\ p \in DOMAIN m.failed
  /\ m.failed[p].count > FailureThreshold
  /\ m.failed[p].recent

RECURSIVE NextCandidate(_, _, _)
NextCandidate(m, ci, attempts) ==
  IF attempts >= Len(m.proxies) THEN [proxy |-> NoProxy, ci |-> ci]
  ELSE LET candidate == m.proxies[(ci % Len(m.proxies)) + 1]
       IN  IF InCooldown(m, candidate)
           THEN NextCandidate(m, ci + 1, attempts + 1)
           ELSE [proxy |-> candidate, ci |-> ci + 1]

\* "working_list[self.current_index % len(working_list)]" (145)
RotatedFirst(list, index) == list[1]
Rotated(list, index) == list[(index % Len(list)) + 1]

\* get_proxy: the proxy returned ({} is NoProxy) and the new current_index
get_proxy(m) ==
  IF ~m.use_proxies \/ m.proxies = <<>>
  THEN [proxy |-> NoProxy, ci |-> m.current_index]
  ELSE IF m.working # {}
  THEN [proxy |-> Rotated(WorkingList(m), m.current_index),
        ci |-> m.current_index + 1]
  ELSE NextCandidate(m, m.current_index, 0)

mark_proxy_successKeepsRecord(m, p) ==
  IF p = NoProxy \/ ~m.use_proxies THEN m
  ELSE [m EXCEPT !.working = @ \cup {p}]
mark_proxy_success(m, p) ==
  IF p = NoProxy \/ ~m.use_proxies THEN m
  ELSE [m EXCEPT !.working = @ \cup {p},
                 !.failed = [q \in DOMAIN @ \ {p} |-> @[q]]]

mark_proxy_failure(m, p) ==
  IF p = NoProxy \/ ~m.use_proxies THEN m
  ELSE [m EXCEPT !.working = @ \ {p},
                 !.failed = [q \in DOMAIN @ \cup {p} |->
                               IF q = p
                               THEN [count |-> (IF p \in DOMAIN @ THEN @[p].count ELSE 0) + 1,
                                     recent |-> TRUE]
                               ELSE @[q]]]

\* ------------------------------------------------------------- checkpoint
ZeroCheckpoint == [last_index |-> 0, total_processed |-> 0]
DefaultProgress == [c \in ItemClasses |-> ZeroCheckpoint]

load_progress(file) == IF file.state = "ok" THEN file.data ELSE DefaultProgress
SavedProgress(p) == [state |-> "ok", data |-> p]

AdvancedIndexOnly(p, item_type, batch_size) ==
  [p EXCEPT ![item_type].last_index = @ + batch_size]
Advanced(p, item_type, batch_size) ==
  [p EXCEPT ![item_type] = [last_index |-> @.last_index + batch_size,
                            total_processed |-> @.total_processed + batch_size]]

ResetOneResetsAll(p, item_type) == [c \in DOMAIN p |-> ZeroCheckpoint]
ResetOne(p, item_type) == [p EXCEPT ![item_type] = ZeroCheckpoint]
ResetAll(p) == [c \in DOMAIN p |-> ZeroCheckpoint]

\* scrape_lego_direct.py 28, 703: processed_urls.json before the first run
EmptyLedger == [u \in {} |-> FALSE]
NoLedger == [state |-> "absent", data |-> EmptyLedger]

\* ---------------------------------------------------------------- history
NoHistory ==
  [calls |-> {}, requests |-> {}, mappingAtStart |-> EmptyMap, failedAtStart |-> <<>>,
   permFail |-> 0, slice |-> <<>>, ckptAtStart |-> DefaultProgress,
   updated_count |-> [sets |-> 0, minifigs |-> 0], served |-> <<>>, slept |-> 0,
   since |-> [p \in {} |-> 0]]

IdleBatch ==
  /\ image_mapping' = EmptyMap
  /\ all_urls' = <<>>
  /\ i' = 0
  /\ retry_count' = 0
  /\ successful' = 0
  /\ failed' = 0
  /\ skipped' = 0
  /\ failed_downloads' = <<>>
  /\ update_step' = "write_sets"

IdleArgs ==
  [cmd |-> "none", item_type |-> "sets", batch_size |-> 0, dry_run |-> FALSE,
   force_upload |-> FALSE, use_proxies |-> FALSE, force_own_ip |-> FALSE]

\* The proxy list a deployment is configured with (load_proxies,
\* add_oxylabs_proxies), and the orders in which a process may iterate over
\* the set of working proxies.
Pools ==
  UNION {{[k \in 1..n |-> [id |-> k, form |-> f[k]]] : f \in [1..n -> ProxyForms]} :
         n \in 0..NumProxies}
Orders(pool) ==
  LET names == {current_proxy_url(q) : q \in Range(pool)}
  IN  {o \in [1..Len(pool) -> names] : \A a, b \in 1..Len(pool) : o[a] = o[b] => a = b}

Init ==
  /\ setsCsv = OriginalSetsCsv
  /\ minifigsCsv = OriginalMinifigsCsv
  /\ mappingFile = EmptyMap
  /\ failedFile = <<>>
  /\ progressFile = [state |-> "absent", data |-> DefaultProgress]
  /\ truncated = {}
  /\ localFiles = {}
  /\ r2 = {}
  /\ proxiesFile \in Pools
  /\ pc = "idle"
  /\ args = IdleArgs
  /\ progress = DefaultProgress
  /\ pm = NoManager
  /\ image_mapping = EmptyMap
  /\ all_urls = <<>>
  /\ i = 0
  /\ retry_count = 0
  /\ successful = 0
  /\ failed = 0
  /\ skipped = 0
  /\ failed_downloads = <<>>
  /\ update_step = "write_sets"
  /\ tempCsv = NoTempFiles
  /\ processed_item_ids = EmptyCount
  /\ futures = <<>>
  /\ threads = <<>>
  /\ processedUrlsFile = NoLedger
  /\ printed = <<>>
  /\ image_files = {}
  /\ hist = [run |-> NoHistory, runs |-> 0, sumB |-> [c \in ItemClasses |-> 0]]

CanStart == pc = "idle" /\ hist.runs < MaxRuns

AtStart == [NoHistory EXCEPT !.mappingAtStart = mappingFile,
                             !.failedAtStart = failedFile,
                             !.ckptAtStart = load_progress(progressFile)]
Started == [hist EXCEPT !.runs = @ + 1, !.run = AtStart]

\* main (1589-1597): which stages the flags select
RunsExtract(a) ==
  a.extract_only \/ (~a.process_images /\ ~a.update_csv)
RunsProcess(a) ==
  a.process_images \/ (~a.extract_only /\ ~a.update_csv)

\* extract_gz_files: the CSVs are rewritten from the .gz feed
ExtractedSets(a) == IF RunsExtract(a) THEN OriginalSetsCsv ELSE setsCsv
ExtractedMinifigs(a) == IF RunsExtract(a) THEN OriginalMinifigsCsv ELSE minifigsCsv

\* 1589-1610: process_image_urls (527-589) when the flags select it, else
\* update_csv_with_new_urls alone or nothing
EnterStages(a) ==
  IF RunsProcess(a)
  THEN /\ pc' = "loop"
       /\ image_mapping' = mappingFile
       /\ all_urls' = ScanWindow(ExtractedSets(a), ExtractedMinifigs(a), a.minifigs_only,
                                 a.limit, a.start_index, a.batch_size)
       /\ i' = 1
       /\ retry_count' = 0
       /\ successful' = 0
       /\ failed' = 0
       /\ skipped' = 0
       /\ failed_downloads' = <<>>
       /\ update_step' = "write_sets"
  ELSE /\ pc' = IF a.update_csv THEN "propagate" ELSE "done"
       /\ IdleBatch

\* json.load of image_mapping.json (529-530, 733-734, 922-923) is in no try
\* block: it raises on a file that an interrupted json.dump left behind
UnreadableNever(name) == FALSE
Unreadable(name) == name \in truncated

\* main up to the first step of process_image_urls' loop (1555-1604, 527-589):
\* ProxyManager built, .gz extracted, mapping loaded, window taken.  When the
\* mapping cannot be read the exception leaves main before the window is taken.
EnterMain(a) ==
  /\ setsCsv' = ExtractedSets(a)
  /\ minifigsCsv' = ExtractedMinifigs(a)
  /\ IF (RunsProcess(a) \/ a.update_csv) /\ Unreadable("mapping")
     THEN /\ pc' = "failed"
          /\ pm' = NoManager
          /\ IdleBatch
     ELSE /\ pm' = NewProxyManager(a.use_proxies, a.force_own_ip, a.pool, a.order)
          /\ EnterStages(a)
  /\ UNCHANGED <<truncated, tempCsv, mappingFile, failedFile, progressFile, localFiles, r2, proxiesFile>>

StageFlags ==
  {[extract_only |-> FALSE, process_images |-> FALSE, update_csv |-> FALSE],
   [extract_only |-> FALSE, process_images |-> FALSE, update_csv |-> TRUE],
   [extract_only |-> FALSE, process_images |-> TRUE, update_csv |-> FALSE],
   [extract_only |-> TRUE, process_images |-> FALSE, update_csv |-> FALSE]}

\* bricks-deal extract-catalog [...] without --rebuild-mapping
main ==
  /\ CanStart
  /\ \E f \in StageFlags, dry_run \in BOOLEAN, minifigs_only \in BOOLEAN,
        limit \in 0..1, start_index \in 0..MaxBatch, batch_size \in 1..MaxBatch,
        use_proxies \in BOOLEAN, force_own_ip \in BOOLEAN :
       \E order \in Orders(proxiesFile) :
         LET a == [extract_only |-> f.extract_only, process_images |-> f.process_images,
                   update_csv |-> f.update_csv, minifigs_only |-> minifigs_only,
                   limit |-> limit, start_index |-> start_index, batch_size |-> batch_size,
                   use_proxies |-> use_proxies, force_own_ip |-> force_own_ip,
                   pool |-> proxiesFile, order |-> order]
         IN  /\ EnterMain(a)
             /\ image_files' = {}
             /\ args' = [IdleArgs EXCEPT !.cmd = "extract",
                                         !.dry_run = RunsProcess(a) /\ dry_run,
                                         !.use_proxies = use_proxies,
                                         !.force_own_ip = force_own_ip]
  /\ progress' = DefaultProgress
  /\ hist' = Started
  /\ UNCHANGED <<executor, printed>>

\* continue_extraction (in process) and run_extract_command (subprocess):
\* progress loaded, start index read, extract main entered with
\* process_images = False and update_csv as given.
ContinueArgs(item_type, batch_size, use_proxies, order, update_csv) ==
  [extract_only |-> FALSE, process_images |-> FALSE, update_csv |-> update_csv,
   minifigs_only |-> (item_type = "minifigs"), limit |-> 0,
   start_index |-> load_progress(progressFile)[item_type].last_index,
   batch_size |-> batch_size, use_proxies |-> use_proxies, force_own_ip |-> FALSE,
   pool |-> proxiesFile, order |-> order]

StartContinue(cmd, item_type, batch_size, use_proxies, order, update_csv) ==
  LET a == ContinueArgs(item_type, batch_size, use_proxies, order, update_csv)
  IN  /\ CanStart
      /\ progress' = load_progress(progressFile)
      /\ EnterMain(a)
      /\ image_files' = {}
      /\ args' = [IdleArgs EXCEPT !.cmd = cmd, !.item_type = item_type,
                                  !.batch_size = batch_size, !.use_proxies = use_proxies]
      /\ hist' = [Started EXCEPT
                    !.run.slice = ScanWindow(ExtractedSets(a), ExtractedMinifigs(a),
                                             a.minifigs_only, a.limit, a.start_index,
                                             a.batch_size)]
      /\ UNCHANGED <<executor, printed>>

continue_extraction ==
  \E item_type \in ItemClasses, batch_size \in 1..MaxBatch, use_proxies \in BOOLEAN,
     update_csv \in BOOLEAN :
    \E order \in Orders(proxiesFile) :
      StartContinue("continue", item_type, batch_size, use_proxies, order, update_csv)

run_extract_command ==
  \E item_type \in ItemClasses, batch_size \in 1..MaxBatch, use_proxies \in BOOLEAN,
     update_csv \in BOOLEAN :
    \E order \in Orders(proxiesFile) :
      StartContinue("subprocess", item_type, batch_size, use_proxies, order, update_csv)

\* ------------------------------------------------- process_image_urls loop
Logged(h, field, entry) == [h EXCEPT !.run[field] = @ \cup {entry}]
\* requests.get(url, proxies=current_proxy) at 389: the request goes through
\* the proxy configured for the URL's scheme, and directly when the dict has
\* no key for that scheme
Request(proxy, url) == IF UrlScheme(url) \in ProxyConfig(proxy) THEN "proxied" ELSE "direct"
Call(op, url) == [op |-> op, url |-> url, mapped |-> url \in DOMAIN image_mapping]

FailureRecord(url, reason) == [url |-> url, reason |-> reason]

\* "if dry_run:" (620)
DryRunNever(a) == FALSE
DryRun(a) == a.dry_run

\* one iteration of "for i, item in enumerate(all_urls)" up to the call of
\* download_and_optimize_image or upload_to_cloudflare_r2 (591-646)
process_item ==
  /\ pc = "loop"
  /\ i <= Len(all_urls)
  /\ LET task == all_urls[i]
         url == task.url
     IN  IF AlreadyProcessed(url, image_mapping)
         THEN /\ successful' = successful + 1
              /\ skipped' = skipped + 1
              /\ i' = i + 1
              /\ UNCHANGED <<pc, image_mapping, retry_count, hist>>
         ELSE IF DryRun(args)
         THEN /\ image_mapping' = Put(image_mapping, url, PublicUrl(TaskObjectKey(task)))
              /\ successful' = successful + 1
              /\ i' = i + 1
              /\ UNCHANGED <<pc, skipped, retry_count, hist>>
         ELSE IF TaskFilename(task) \in localFiles
         THEN /\ pc' = "upload"
              /\ UNCHANGED <<image_mapping, successful, skipped, i, retry_count, hist>>
         ELSE /\ pc' = "download"
              /\ retry_count' = 0
              /\ hist' = Logged(hist, "calls", Call("fetch", url))
              /\ UNCHANGED <<image_mapping, successful, skipped, i>>
  /\ UNCHANGED <<durable, args, progress, pm, all_urls, failed, failed_downloads, update_step,
                 image_files>>
  /\ UNCHANGED <<executor, printed>>

\* process_image_urls after download_and_optimize_image returned False (666-669)
DownloadFailed ==
  /\ failed' = failed + 1
  /\ failed_downloads' = Append(failed_downloads,
                                FailureRecord(all_urls[i].url, "Failed to download/process"))
  /\ i' = i + 1
  /\ retry_count' = 0
  /\ pc' = "loop"

FetchOutcomes == {"ok", "ProxyError", "Timeout", "RequestException", "Exception"}
ReportedOutcomes == {"ProxyError", "Timeout", "RequestException"}

\* download_and_optimize_image 361-384: a request is made through the proxy
\* get_proxy returned, or directly when force_own_ip allows it
MayRequest(m, proxy) == proxy # NoProxy \/ m.force_own_ip

\* "while retry_count < max_retries" (356)
RetryAgainAlways(count) == TRUE
RetryAgain(count) == count < max_retries

\* "if retry_count < max_retries: time.sleep(2 * retry_count)" (459-461):
\* the seconds slept at the end of an attempt that left the count at count
BackoffAlways(count) == 2 * count
Backoff(count) == IF count < max_retries THEN 2 * count ELSE 0
Slept(h, seconds) == [h EXCEPT !.run.slept = seconds]

\* one iteration of "while retry_count < max_retries" (356-461)
download_attempt ==
  /\ pc = "download"
  /\ LET g == IF pm.use_proxies THEN get_proxy(pm)
              ELSE [proxy |-> NoProxy, ci |-> pm.current_index]
         m1 == [pm EXCEPT !.current_index = g.ci]
         file == TaskFilename(all_urls[i])
     IN  IF ~MayRequest(pm, g.proxy)
         THEN /\ DownloadFailed
              /\ pm' = m1
              /\ hist' = Slept([hist EXCEPT !.run.permFail = @ + 1], 0)
              /\ UNCHANGED localFiles
         ELSE \E outcome \in FetchOutcomes :
                LET h1 == Logged(hist, "requests", Request(g.proxy, all_urls[i].url))
                    h2 == Slept(h1, Backoff(retry_count + 1))
                IN  IF outcome = "ok"
                    THEN /\ localFiles' = localFiles \cup {file}
                         /\ pm' = mark_proxy_success(m1, current_proxy_url(g.proxy))
                         /\ pc' = "upload"
                         /\ retry_count' = 0
                         /\ hist' = Slept(h1, 0)
                         /\ UNCHANGED <<failed, failed_downloads, i>>
                    ELSE /\ pm' = IF outcome \in ReportedOutcomes
                                  THEN mark_proxy_failure(m1, current_proxy_url(g.proxy)) ELSE m1
                         /\ UNCHANGED localFiles
                         /\ IF RetryAgain(retry_count + 1)
                            THEN /\ retry_count' = retry_count + 1
                                 /\ hist' = h2
                                 /\ UNCHANGED <<pc, failed, failed_downloads, i>>
                            ELSE /\ DownloadFailed
                                 /\ hist' = [h2 EXCEPT !.run.permFail = @ + 1]
  /\ UNCHANGED <<truncated, setsCsv, minifigsCsv, tempCsv, update_step, mappingFile, failedFile, progressFile, r2, proxiesFile, args,
                 progress, image_mapping, all_urls, successful, skipped, image_files>>
  /\ UNCHANGED <<executor, printed>>

\* upload_to_cloudflare_r2 and the bookkeeping after it (648-665)
upload ==
  /\ pc = "upload"
  /\ LET task == all_urls[i]
         key == TaskObjectKey(task)
         h1 == Logged(hist, "calls", Call("upload", task.url))
     IN  \E stored \in BOOLEAN :
           IF stored
           THEN /\ r2' = r2 \cup {key}
                /\ image_mapping' = Put(image_mapping, task.url, PublicUrl(key))
                /\ successful' = successful + 1
                /\ hist' = h1
                /\ UNCHANGED <<failed, failed_downloads>>
           ELSE /\ failed' = failed + 1
                /\ failed_downloads' = Append(failed_downloads,
                      FailureRecord(task.url, "Failed to upload to Cloudflare R2"))
                /\ hist' = [h1 EXCEPT !.run.permFail = @ + 1]
                /\ UNCHANGED <<r2, image_mapping, successful>>
  /\ i' = i + 1
  /\ pc' = "loop"
  /\ UNCHANGED <<truncated, setsCsv, minifigsCsv, tempCsv, update_step, mappingFile, failedFile, progressFile, localFiles, proxiesFile,
                 args, progress, pm, all_urls, retry_count, skipped, image_files>>
  /\ UNCHANGED <<executor, printed>>

\* failed_downloads.json: existing records extended by this run's (671-691)
SavedFailuresOverwrite(existing, new) == new
SavedFailures(existing, new) == IF new = <<>> THEN existing ELSE existing \o new

\* the statements after "for i, item in enumerate(all_urls)" (591, 671) run
\* when the loop has visited every task
LoopDoneAnytime == TRUE
LoopDone == i > Len(all_urls)

\* 679-685: "except json.JSONDecodeError: existing_failed = []"
ExistingFailures == IF Unreadable("failed") THEN <<>> ELSE failedFile
\* the files a json.dump left partly written, after failed_downloads.json
\* was written in full when there was something to write (672, 688-689)
FailuresWritten == IF failed_downloads = <<>> THEN truncated ELSE truncated \ {"failed"}

\* end of process_image_urls: both files saved, counts returned (671-701).
\* Nothing reads the proxy manager after the loop.
finish_batch ==
  /\ pc = "loop"
  /\ LoopDone
  /\ failedFile' = SavedFailures(ExistingFailures, failed_downloads)
  /\ mappingFile' = image_mapping
  /\ truncated' = FailuresWritten
  /\ pm' = NoManager
  /\ pc' = "propagate"
  /\ UNCHANGED <<setsCsv, minifigsCsv, tempCsv, progressFile, localFiles, r2, proxiesFile, args,
                 progress, batch, image_files, hist>>
  /\ UNCHANGED <<executor, printed>>

\* ------------------------------------------------ update_csv_with_new_urls
\* "for row in reader" (752-758, 781-787): a row whose img_url is a key of
\* the mapping gets the mapped value in that column and is counted; every row
\* is written with all its columns
UpdatedRowGet(row, mapping) ==
  [row EXCEPT !.img_url = IF @ \in DOMAIN mapping THEN mapping[@] ELSE NoneUrl]
UpdatedRowBlanksAsset(row, mapping) ==
  [row EXCEPT !.img_url = IF @ \in DOMAIN mapping THEN mapping[@]
                          ELSE IF IsCloudflareUrl(@) THEN NoneUrl ELSE @]
UpdatedRow(row, mapping) ==
  IF row.img_url \in DOMAIN mapping THEN [row EXCEPT !.img_url = mapping[@]] ELSE row
UpdatedCsv(csv, mapping) == [k \in 1..Len(csv) |-> UpdatedRow(csv[k], mapping)]
updated_count(csv, mapping) ==
  Cardinality({k \in 1..Len(csv) : csv[k].img_url \in DOMAIN mapping})

ContinueCmds == {"continue", "subprocess"}

\* "with open(temp_csv, 'w') as f_out" (748): the rows written so far are in
\* the temporary file, the catalog file is only read
WrittenInPlace(catalog, temp, rows) == [catalog |-> rows, temp |-> temp]
Written(catalog, temp, rows) == [catalog |-> catalog, temp |-> [exists |-> TRUE, rows |-> rows]]

\* os.replace(temp_csv, sets_csv) (761, 790): one rename
Replaced(catalog, temp) == [catalog |-> temp.rows, temp |-> NoFile]

UpdatedFile(step) == IF step \in {"write_sets", "replace_sets"} THEN "sets" ELSE "minifigs"
Catalog(file) == IF file = "sets" THEN setsCsv ELSE minifigsCsv

\* the two catalog files and the temporary files after the statement changed
\* file f to w
Files(f, w) ==
  /\ setsCsv' = IF f = "sets" THEN w.catalog ELSE setsCsv
  /\ minifigsCsv' = IF f = "minifigs" THEN w.catalog ELSE minifigsCsv
  /\ tempCsv' = [tempCsv EXCEPT ![f] = w.temp]

\* 738-759, 767-788: the rewritten rows of one catalog file are written
update_csv_write ==
  /\ pc = "propagate"
  /\ update_step \in {"write_sets", "write_minifigs"}
  /\ LET f == UpdatedFile(update_step)
     IN  /\ Files(f, Written(Catalog(f), tempCsv[f], UpdatedCsv(Catalog(f), mappingFile)))
         /\ hist' = [hist EXCEPT !.run.updated_count[f] = updated_count(Catalog(f), mappingFile)]
  /\ update_step' = IF update_step = "write_sets" THEN "replace_sets" ELSE "replace_minifigs"
  /\ UNCHANGED <<truncated, mappingFile, failedFile, progressFile, localFiles, r2, proxiesFile, pc, args,
                 progress, pm, image_mapping, all_urls, i, retry_count, successful, failed,
                 skipped, failed_downloads, image_files>>
  /\ UNCHANGED <<executor, printed>>

\* 761, 790: the temporary file replaces the catalog file
update_csv_replace ==
  /\ pc = "propagate"
  /\ update_step \in {"replace_sets", "replace_minifigs"}
  /\ LET f == UpdatedFile(update_step)
     IN  Files(f, Replaced(Catalog(f), tempCsv[f]))
  /\ IF update_step = "replace_sets"
     THEN /\ update_step' = "write_minifigs"
          /\ UNCHANGED pc
     ELSE /\ update_step' = "write_sets"
          /\ pc' = IF args.cmd \in ContinueCmds THEN "advance" ELSE "done"
  /\ UNCHANGED <<truncated, mappingFile, failedFile, progressFile, localFiles, r2, proxiesFile, args,
                 progress, pm, image_mapping, all_urls, i, retry_count, successful, failed,
                 skipped, failed_downloads, image_files, hist>>
  /\ UNCHANGED <<executor, printed>>

update_csv_with_new_urls == update_csv_write \/ update_csv_replace

\* The process dies inside update_csv_with_new_urls: while the rows are being
\* written, any number of them is in the file that is open for writing.
Interrupted ==
  IF pc = "propagate" /\ update_step \in {"write_sets", "write_minifigs"}
  THEN LET f == UpdatedFile(update_step)
           rows == UpdatedCsv(Catalog(f), mappingFile)
       IN  \/ UNCHANGED <<setsCsv, minifigsCsv, tempCsv>>
           \/ \E n \in 0..Len(rows) :
                Files(f, Written(Catalog(f), tempCsv[f], SubSeq(rows, 1, n)))
  ELSE UNCHANGED <<setsCsv, minifigsCsv, tempCsv>>

\* ------------------------------------------------- checkpoint controllers
\* run_extract_command 79: "if result.returncode == 0"; continue_extraction
\* reaches its lines 99-102 only when extract main returned
AdvanceOnReturnAlways(returncode) == TRUE
AdvanceOnReturn(returncode) == returncode = 0

\* continue_extraction 99-102; run_extract_command 79-82
advance ==
  /\ pc = "advance"
  /\ AdvanceOnReturn(0)
  /\ progress' = Advanced(progress, args.item_type, args.batch_size)
  /\ progressFile' = SavedProgress(Advanced(progress, args.item_type, args.batch_size))
  /\ hist' = [hist EXCEPT !.sumB[args.item_type] = @ + args.batch_size]
  /\ pc' = "done"
  /\ UNCHANGED <<truncated, setsCsv, minifigsCsv, tempCsv, mappingFile, failedFile, localFiles, r2, proxiesFile, args, pm,
                 batch, image_files>>
  /\ UNCHANGED <<executor, printed>>

Finished ==
  /\ args' = IdleArgs
  /\ progress' = DefaultProgress
  /\ pm' = NoManager
  /\ IdleBatch
  /\ image_files' = {}

\* the command returns
exit ==
  /\ pc \in {"done", "failed"}
  /\ pc' = "idle"
  /\ Finished
  /\ hist' = [hist EXCEPT !.run = NoHistory]
  /\ UNCHANGED durable
  /\ UNCHANGED <<executor, printed>>

\* An exception leaves extract main (an unreadable file, a missing CSV), or
\* the process is killed: nothing after the current step runs.  In the
\* subprocess variant this is the non-zero return code.
abort ==
  /\ pc \in {"loop", "download", "upload", "propagate", "rebuild", "advance"}
  /\ pc' = "failed"
  /\ args' = [IdleArgs EXCEPT !.cmd = args.cmd]
  /\ progress' = DefaultProgress
  /\ pm' = NoManager
  /\ IdleBatch
  /\ image_files' = {}
  /\ hist' = [hist EXCEPT !.run = [NoHistory EXCEPT !.ckptAtStart = hist.run.ckptAtStart]]
  /\ progressFile' = IF args.cmd \in ContinueCmds /\ AdvanceOnReturn(1)
                     THEN SavedProgress(Advanced(progress, args.item_type, args.batch_size))
                     ELSE progressFile
  /\ Interrupted
  /\ UNCHANGED <<truncated, mappingFile, failedFile, localFiles, r2, proxiesFile>>
  /\ UNCHANGED <<executor, printed>>

\* reset_progress(item_type) and reset_progress() (107-125)
reset_progress(item_type) ==
  /\ CanStart
  /\ progressFile' = SavedProgress(ResetOne(load_progress(progressFile), item_type))
  /\ pc' = "done"
  /\ args' = [IdleArgs EXCEPT !.cmd = "reset", !.item_type = item_type]
  /\ hist' = [Started EXCEPT !.sumB[item_type] = 0]
  /\ UNCHANGED <<truncated, setsCsv, minifigsCsv, tempCsv, mappingFile, failedFile, localFiles, r2, proxiesFile,
                 progress, pm, batch, image_files>>
  /\ UNCHANGED <<executor, printed>>

reset_progress_all ==
  /\ CanStart
  /\ progressFile' = SavedProgress(ResetAll(load_progress(progressFile)))
  /\ pc' = "done"
  /\ args' = [IdleArgs EXCEPT !.cmd = "reset_all"]
  /\ hist' = [Started EXCEPT !.sumB = [c \in ItemClasses |-> 0]]
  /\ UNCHANGED <<truncated, setsCsv, minifigsCsv, tempCsv, mappingFile, failedFile, localFiles, r2, proxiesFile,
                 progress, pm, batch, image_files>>
  /\ UNCHANGED <<executor, printed>>

\* --------------------------------------------------- rebuild_image_mapping
\* 945-952: the item type is read off the file name ('minifig' or 'fig-' in it)
FileItemType(file) == IF file.kind = "minifig" THEN "minifig" ELSE "set"

\* 970-995, 1017-1039: the item number is cut out of the file name by the first
\* pattern that matches and three source URLs are built from it.  File names
\* hold the display name, not the item number, so the URLs built are in
\* general no catalog URL ("guess"); set 1 of the catalog is named by its own
\* number, and the first URL built from its file is its catalog URL.
GuessUrl(file, variant) == [t |-> "guess", kind |-> file.kind, n |-> file.name, v |-> variant]
original_urls(file) ==
  << IF file.kind = "set" /\ file.name = SetName(1) THEN SrcUrl("set", 1) ELSE GuessUrl(file, 1),
     GuessUrl(file, 2), GuessUrl(file, 3) >>

\* 998-1005: a source URL that has no entry yet
InsertableAnyKey(original_url, cloudflare_url, mapping) == cloudflare_url \notin Range(mapping)
Insertable(original_url, cloudflare_url, mapping) ==
  original_url \notin DOMAIN mapping /\ cloudflare_url \notin Range(mapping)

\* "for original_url in original_urls: if ...: ...; break" (998-1005)
RECURSIVE RebuildInsert(_, _, _)
RebuildInsertNoBreak(mapping, urls, cloudflare_url) ==
  [u \in DOMAIN mapping \cup Range(urls) |->
     IF u \in DOMAIN mapping THEN mapping[u] ELSE cloudflare_url]
RebuildInsert(mapping, urls, cloudflare_url) ==
  IF urls = <<>> THEN mapping
  ELSE IF Insertable(Head(urls), cloudflare_url, mapping)
       THEN Put(mapping, Head(urls), cloudflare_url)
       ELSE RebuildInsert(mapping, Tail(urls), cloudflare_url)

\* bricks-deal extract-catalog --rebuild-mapping [--force-upload] (913-936)
rebuild_image_mapping ==
  /\ CanStart
  /\ \E force_upload \in BOOLEAN :
       args' = [IdleArgs EXCEPT !.cmd = "rebuild", !.force_upload = force_upload]
  /\ IF Unreadable("mapping")
     THEN /\ pc' = "failed"
          /\ UNCHANGED <<image_mapping, image_files>>
     ELSE /\ pc' = "rebuild"
          /\ image_mapping' = mappingFile
          /\ image_files' = localFiles
  /\ hist' = Started
  /\ UNCHANGED <<durable, progress, pm, all_urls, i, retry_count, successful, failed,
                 skipped, failed_downloads, update_step>>
  /\ UNCHANGED <<executor, printed>>

\* one iteration of "for i, image_file in enumerate(image_files)" (939-1059);
\* os.listdir gives the files in no particular order
rebuild_file ==
  /\ pc = "rebuild"
  /\ \E file \in image_files :
       LET key == ObjectKey(FileItemType(file), file)
       IN  /\ image_files' = image_files \ {file}
           /\ IF PublicUrl(key) \in Range(image_mapping) /\ ~args.force_upload
              THEN UNCHANGED <<image_mapping, r2>>
              ELSE IF args.force_upload
              THEN \E stored \in BOOLEAN :
                     /\ r2' = IF stored THEN r2 \cup {key} ELSE r2
                     /\ image_mapping' = RebuildInsert(image_mapping, original_urls(file),
                                            IF stored THEN PublicUrl(key) ELSE NoneUrl)
              ELSE /\ image_mapping' = RebuildInsert(image_mapping, original_urls(file),
                                                     PublicUrl(key))
                   /\ UNCHANGED r2
  /\ UNCHANGED <<truncated, setsCsv, minifigsCsv, tempCsv, update_step, mappingFile, failedFile, progressFile, localFiles, proxiesFile,
                 pc, args, progress, pm, all_urls, i, retry_count, successful, failed,
                 skipped, failed_downloads, hist>>
  /\ UNCHANGED <<executor, printed>>

\* 1061-1072: the mapping is saved and update_csv_with_new_urls follows
rebuild_finish ==
  /\ pc = "rebuild"
  /\ image_files = {}
  /\ mappingFile' = image_mapping
  /\ pc' = "propagate"
  /\ UNCHANGED <<truncated, setsCsv, minifigsCsv, tempCsv, failedFile, progressFile, localFiles, r2, proxiesFile, args,
                 progress, pm, batch, image_files, hist>>
  /\ UNCHANGED <<executor, printed>>

\* The process dies inside a json.dump that writes a file in place (688-689,
\* 694-695, 1062-1063; save_progress 44-45): "open(file, 'w')" has emptied the
\* file and a part of the new text is in it.  Nothing of the command runs
\* after it; with the checkpoint file the count of advances is lost.
Emptied(files) == truncated \cup files
interrupted_save ==
  /\ \/ /\ pc = "loop"
        /\ LoopDone
        /\ \/ /\ failed_downloads # <<>>
              /\ failedFile' = <<>>
              /\ truncated' = Emptied({"failed"})
              /\ UNCHANGED mappingFile
           \/ /\ failedFile' = SavedFailures(ExistingFailures, failed_downloads)
              /\ mappingFile' = EmptyMap
              /\ truncated' = FailuresWritten \cup {"mapping"}
        /\ UNCHANGED progressFile
     \/ /\ pc = "rebuild"
        /\ image_files = {}
        /\ mappingFile' = EmptyMap
        /\ truncated' = Emptied({"mapping"})
        /\ UNCHANGED <<failedFile, progressFile>>
     \/ /\ pc = "advance"
        /\ progressFile' = [state |-> "corrupt", data |-> DefaultProgress]
        /\ UNCHANGED <<mappingFile, failedFile, truncated>>
  /\ hist' = [hist EXCEPT !.run = NoHistory,
                          !.sumB = IF pc = "advance" THEN [c \in ItemClasses |-> 0] ELSE @]
  /\ pc' = "idle"
  /\ Finished
  /\ UNCHANGED <<setsCsv, minifigsCsv, tempCsv, localFiles, r2, proxiesFile>>
  /\ UNCHANGED <<executor, printed>>

\* ------------------------------------------------------------------- time
\* More than 3600 s have passed since the last failure of proxy p (160); the
\* age of a failure is read only for a proxy that failed more than twice
cooldown_elapsed ==
  /\ pc \in {"loop", "download", "upload"}
  /\ \E p \in DOMAIN pm.failed :
       /\ InCooldown(pm, p)
       /\ pm' = [pm EXCEPT !.failed[p].recent = FALSE]
  /\ UNCHANGED <<durable, pc, args, progress, batch, image_files, hist>>
  /\ UNCHANGED <<executor, printed>>

Next ==
  \/ main
  \/ continue_extraction
  \/ run_extract_command
  \/ process_item
  \/ download_attempt
  \/ upload
  \/ finish_batch
  \/ interrupted_save
  \/ update_csv_with_new_urls
  \/ advance
  \/ exit
  \/ abort
  \/ \E item_type \in ItemClasses : reset_progress(item_type)
  \/ reset_progress_all
  \/ rebuild_image_mapping
  \/ rebuild_file
  \/ rebuild_finish
  \/ cooldown_elapsed

Spec == Init /\ [][Next]_vars

\* ------------------------------------------------------------- properties
\* C1  Idempotency gate: process_image_urls issues no fetch and no upload for
\* a source URL that is a key of the mapping, whether the key was loaded from
\* image_mapping.json at the start of the run or added earlier in the run.
C1_IdempotencyGate ==
  \A c \in hist.run.calls :
    ~c.mapped /\ c.url \notin DOMAIN hist.run.mappingAtStart

\* a run that skipped a mapped URL and fetched or uploaded an unmapped one
C1_Witness ==
  /\ pc = "propagate"
  /\ skipped > 0
  /\ hist.run.calls # {}
  /\ hist.run.mappingAtStart # EmptyMap

\* C2  At most one mapping: no step of a batch run, a dry run or a rebuild
\* changes an entry of image_mapping.json, and the mapping a run holds in
\* memory extends the file and keeps its own entries.  Entries leave the file
\* only when an interrupted save leaves it unreadable, and an unreadable file
\* is never written again.
C2_AtMostOneMapping ==
  /\ [](pc \in {"loop", "download", "upload", "rebuild"} =>
          \A u \in DOMAIN mappingFile :
            u \in DOMAIN image_mapping /\ image_mapping[u] = mappingFile[u])
  /\ [][\A u \in DOMAIN mappingFile :
          \/ u \in DOMAIN mappingFile' /\ mappingFile'[u] = mappingFile[u]
          \/ "mapping" \in truncated' /\ mappingFile' = EmptyMap]_vars
  /\ [][Unreadable("mapping") =>
          mappingFile' = mappingFile /\ "mapping" \in truncated']_vars
  /\ [][(pc \in {"loop", "download", "upload", "rebuild"} /\ pc' \notin {"failed", "idle"}) =>
          \A u \in DOMAIN image_mapping :
            u \in DOMAIN image_mapping' /\ image_mapping'[u] = image_mapping[u]]_vars

\* a rebuild with forced upload has visited the local file of a set whose
\* source URL had an entry when the rebuild started
C2_Witness ==
  /\ args.cmd = "rebuild"
  /\ args.force_upload
  /\ pc = "propagate"
  /\ SrcUrl("set", 1) \in DOMAIN hist.run.mappingAtStart
  /\ create_seo_friendly_filename("set", SetName(1)) \in localFiles

\* C3  Partial-failure isolation: when process_image_urls returns, every task
\* of the window was visited; with N unmapped tasks of which F failed
\* permanently it returns (skipped + N - F, F), failed_downloads.json is the
\* old list followed by this run's F records, and the mapping has N - F new
\* keys.
C3_PartialFailureIsolation ==
  (pc = "propagate" /\ i > 0) =>
    LET N == Len(all_urls) - skipped
        F == hist.run.permFail
    IN  /\ i = Len(all_urls) + 1
        /\ successful = skipped + (N - F)
        /\ failed = F
        /\ Len(failed_downloads) = F
        /\ failedFile = hist.run.failedAtStart \o failed_downloads
        /\ \A k \in 1..Len(failed_downloads) :
             /\ \E j \in 1..Len(all_urls) : all_urls[j].url = failed_downloads[k].url
             /\ failed_downloads[k].url \notin DOMAIN mappingFile
        /\ Cardinality(DOMAIN mappingFile \ DOMAIN hist.run.mappingAtStart) = N - F

\* two unmapped tasks, one failed permanently, earlier failure records on file
C3_Witness ==
  /\ pc = "propagate"
  /\ Len(all_urls) = 2
  /\ skipped = 0
  /\ hist.run.permFail = 1
  /\ successful = 1
  /\ hist.run.failedAtStart # <<>>

\* C4  In a continue run the slice taken from the checkpoint is the window
\* process_image_urls works on, and when the catalog rows are propagated, and
\* when the checkpoint is advanced, every item of the slice has a mapping
\* entry or a failure record of this run.
C4_SliceProcessedFirst ==
  (args.cmd \in ContinueCmds /\ pc \in {"propagate", "advance", "done"}) =>
    /\ all_urls = hist.run.slice
    /\ \A k \in 1..Len(hist.run.slice) :
         \/ hist.run.slice[k].url \in DOMAIN mappingFile
         \/ \E j \in (Len(hist.run.failedAtStart) + 1)..Len(failedFile) :
              failedFile[j].url = hist.run.slice[k].url

\* C5  Proxy-exhausted scenario: a completed continue run with proxies
\* enabled, an empty pool and a window of N unmapped tasks made no request,
\* added no mapping entry, appended N failure records and advanced the
\* checkpoint by the batch size.
C5_ProxyExhausted ==
  ( /\ args.cmd \in ContinueCmds
    /\ pc = "done"
    /\ args.use_proxies
    /\ ~args.force_own_ip
    /\ proxiesFile = <<>>
    /\ \A k \in 1..Len(hist.run.slice) :
         hist.run.slice[k].url \notin DOMAIN hist.run.mappingAtStart ) =>
    /\ hist.run.requests = {}
    /\ mappingFile = hist.run.mappingAtStart
    /\ Len(failedFile) = Len(hist.run.failedAtStart) + Len(hist.run.slice)
    /\ load_progress(progressFile)[args.item_type].last_index =
         hist.run.ckptAtStart[args.item_type].last_index + args.batch_size

\* C6  Fail closed: without force_own_ip no request of a run is made without
\* a proxy, and an attempt for which get_proxy gives no proxy ends the task at
\* once: no request, one failure, next task.
C6_FailClosed ==
  /\ [](~args.force_own_ip => "direct" \notin hist.run.requests)
  /\ [][( /\ pc = "download"
          /\ ~pm.force_own_ip
          /\ (pm.use_proxies => get_proxy(pm).proxy = NoProxy)
          /\ <<pc, i, retry_count>>' # <<pc, i, retry_count>>
          /\ pc' # "failed" ) =>
          /\ pc' = "loop"
          /\ i' = i + 1
          /\ failed' = failed + 1
          /\ hist'.run.requests = hist.run.requests]_vars

C8_CheckpointOnlyAfterCompletion ==
  (args.cmd \in ContinueCmds
     /\ pc \in {"loop", "download", "upload", "propagate", "advance", "failed"}) =>
    load_progress(progressFile) = hist.run.ckptAtStart

\* a continue run failed after an earlier one had advanced the checkpoint
C8_Witness ==
  /\ pc = "failed"
  /\ args.cmd \in ContinueCmds
  /\ hist.run.ckptAtStart # DefaultProgress

\* C9  The window (start_index, batch_size) selects the same catalog items
\* whatever has been propagated into the catalog rows so far.
C9_WindowOverSourceOrder ==
  pc = "idle" =>
    \A minifigs_only \in BOOLEAN, start_index \in 0..MaxBatch, batch_size \in 1..MaxBatch :
      LET now == ScanWindow(setsCsv, minifigsCsv, minifigs_only, 0, start_index, batch_size)
          first == ScanWindow(OriginalSetsCsv, OriginalMinifigsCsv, minifigs_only, 0,
                              start_index, batch_size)
      IN  /\ Len(now) = Len(first)
          /\ \A k \in 1..Len(now) : now[k].type = first[k].type /\ now[k].id = first[k].id

FairSpec == Spec /\ WF_vars(download_attempt)

\* C11  Retry bound: inside download_and_optimize_image fewer than
\* max_retries attempts have failed, so the next attempt is at most the
\* third; every attempt either succeeds (upload follows), or fails and is
\* counted, or is the last one, after which the caller appends one failure
\* record for the task and goes on to the next task; a call of
\* download_and_optimize_image returns.
C11_RetryBound ==
  /\ (pc = "download") ~> (pc # "download")
  /\ [](pc = "download" => retry_count \in 0..(max_retries - 1))
  /\ [][( /\ pc = "download"
          /\ <<pc, i, retry_count>>' # <<pc, i, retry_count>>
          /\ pc' # "failed" ) =>
          \/ pc' = "download" /\ i' = i /\ retry_count' = retry_count + 1
                              /\ failed_downloads' = failed_downloads
          \/ pc' = "upload" /\ i' = i /\ failed_downloads' = failed_downloads
          \/ /\ pc' = "loop"
             /\ i' = i + 1
             /\ failed' = failed + 1
             /\ failed_downloads' =
                  Append(failed_downloads,
                         FailureRecord(all_urls[i].url, "Failed to download/process"))]_vars


\* a window of one task whose fetch was requested and failed for good
C11_Witness ==
  /\ pc = "loop"
  /\ Len(all_urls) = 1
  /\ i = 2
  /\ failed = 1
  /\ hist.run.requests # {}
  /\ failed_downloads = <<FailureRecord(all_urls[1].url, "Failed to download/process")>>

\* ------------------------------------------------ the proxy pool on its own
\* One ProxyManager used by a long sequence of fetch attempts, as
\* download_and_optimize_image uses it: get_proxy, the request, and the report
\* of its outcome.  The pool has up to PoolSize entries and get_proxy is
\* followed until current_index reaches MaxIndex.
PoolForms == {"https", "bare"}
PoolPools ==
  UNION {{[k \in 1..n |-> [id |-> k, form |-> f[k]]] : f \in [1..n -> PoolForms]} :
         n \in 1..PoolSize}

\* The orders in which a process may iterate over the working set when the
\* set can also hold list entries as written (test_proxy reports a proxy
\* under the entry of the list, 1134)
PoolOrders(pool) ==
  LET names == Range(pool) \cup {current_proxy_url(q) : q \in Range(pool)}
      n == Cardinality(names)
  IN  {o \in [1..n -> names] : \A a, b \in 1..n : o[a] = o[b] => a = b}

PoolInit ==
  /\ setsCsv = OriginalSetsCsv
  /\ minifigsCsv = OriginalMinifigsCsv
  /\ mappingFile = EmptyMap
  /\ failedFile = <<>>
  /\ progressFile = [state |-> "absent", data |-> DefaultProgress]
  /\ truncated = {}
  /\ localFiles = {}
  /\ r2 = {}
  /\ proxiesFile \in PoolPools
  /\ pc = "pool"
  /\ args = [IdleArgs EXCEPT !.cmd = "extract", !.use_proxies = TRUE]
  /\ progress = DefaultProgress
  /\ pm \in {NewProxyManager(TRUE, FALSE, proxiesFile, order) : order \in PoolOrders(proxiesFile)}
  /\ image_mapping = EmptyMap
  /\ all_urls = <<>>
  /\ i = 0
  /\ retry_count = 0
  /\ successful = 0
  /\ failed = 0
  /\ skipped = 0
  /\ failed_downloads = <<>>
  /\ update_step = "write_sets"
  /\ tempCsv = NoTempFiles
  /\ processed_item_ids = EmptyCount
  /\ futures = <<>>
  /\ threads = <<>>
  /\ processedUrlsFile = NoLedger
  /\ printed = <<>>
  /\ image_files = {}
  /\ hist = [run |-> NoHistory, runs |-> 0, sumB |-> [c \in ItemClasses |-> 0]]

\* test_proxy (1076-1139) on a manager just built: every entry of the list
\* is tried in turn and reported, under the entry as it is written, as
\* working or as failed
RECURSIVE Tested(_, _, _)
Tested(m, k, passed) ==
  IF k > Len(m.proxies) THEN m
  ELSE Tested(IF k \in passed THEN mark_proxy_success(m, m.proxies[k])
              ELSE mark_proxy_failure(m, m.proxies[k]),
              k + 1, passed)

\* the calls of mark_proxy_success and mark_proxy_failure as they are made:
\* for every endpoint, the number of failure reports since its last success
\* report
Reported(outcome) ==
  IF outcome = "ok" THEN "success"
  ELSE IF outcome \in ReportedOutcomes THEN "failure"
  ELSE "none"
Since(since, report, p) ==
  IF report = "success" THEN [q \in DOMAIN since \ {p} |-> since[q]]
  ELSE IF report = "failure"
  THEN [q \in DOMAIN since \cup {p} |->
          IF q = p THEN (IF p \in DOMAIN since THEN since[p] ELSE 0) + 1 ELSE since[q]]
  ELSE since
RECURSIVE TestedSince(_, _, _, _)
TestedSince(since, proxies, k, passed) ==
  IF k > Len(proxies) THEN since
  ELSE TestedSince(Since(since, IF k \in passed THEN "success" ELSE "failure", proxies[k]),
                   proxies, k + 1, passed)

test_proxy ==
  /\ pc = "pool"
  /\ pm = NewProxyManager(TRUE, FALSE, proxiesFile, pm.order)
  /\ \E passed \in SUBSET (1..Len(pm.proxies)) :
       /\ pm' = Tested(pm, 1, passed)
       /\ hist' = [hist EXCEPT !.run.since = TestedSince(@, pm.proxies, 1, passed)]
  /\ UNCHANGED <<durable, pc, args, progress, batch, image_files>>
  /\ UNCHANGED <<executor, printed>>

\* the proxies get_proxy returned since the working set last changed, the
\* last n of them when the working set has n entries
LastN(s, n) == IF Len(s) <= n THEN s ELSE SubSeq(s, Len(s) - n + 1, Len(s))
Served(m, m2, proxy, served) ==
  IF m.working = {} \/ m2.working # m.working THEN <<>>
  ELSE LastN(Append(served, proxy), Cardinality(m.working))

\* one attempt of download_and_optimize_image seen from the pool (361-457)
pool_attempt ==
  /\ pc = "pool"
  /\ pm.current_index < MaxIndex
  /\ LET g == get_proxy(pm)
         m1 == [pm EXCEPT !.current_index = g.ci]
     IN  IF ~MayRequest(pm, g.proxy)
         THEN /\ pm' = m1
              /\ hist' = [hist EXCEPT !.run.served = Served(pm, pm', g.proxy, @)]
         ELSE \E outcome \in FetchOutcomes :
                /\ pm' = IF outcome = "ok"
                         THEN mark_proxy_success(m1, current_proxy_url(g.proxy))
                         ELSE IF outcome \in ReportedOutcomes
                         THEN mark_proxy_failure(m1, current_proxy_url(g.proxy))
                         ELSE m1
                /\ hist' = [hist EXCEPT
                              !.run.served = Served(pm, pm', g.proxy, @),
                              !.run.since = Since(@, Reported(outcome),
                                                  current_proxy_url(g.proxy))]
  /\ UNCHANGED <<durable, pc, args, progress, batch, image_files>>
  /\ UNCHANGED <<executor, printed>>

\* more than 3600 s pass after the last failure of a proxy in cooldown (160)
pool_cooldown_elapsed ==
  /\ pc = "pool"
  /\ \E p \in DOMAIN pm.failed :
       /\ InCooldown(pm, p)
       /\ pm' = [pm EXCEPT !.failed[p].recent = FALSE]
  /\ UNCHANGED <<durable, pc, args, progress, batch, image_files, hist>>
  /\ UNCHANGED <<executor, printed>>

PoolNext == test_proxy \/ pool_attempt \/ pool_cooldown_elapsed
PoolSpec == PoolInit /\ [][PoolNext]_vars

\* C12  Whenever the working set is not empty, the proxy get_proxy returns is
\* in the working set and has no failure record.
C12_PrefersWorking ==
  (pm.use_proxies /\ pm.working # {}) =>
    /\ get_proxy(pm).proxy \in pm.working
    /\ get_proxy(pm).proxy \notin DOMAIN pm.failed

\* a pool with a working proxy, a failed one and an untested one
C12_Witness ==
  /\ pc = "pool"
  /\ pm.working # {}
  /\ DOMAIN pm.failed # {}
  /\ \E q \in Range(pm.proxies) :
       current_proxy_url(q) \notin pm.working \cup DOMAIN pm.failed

\* C13  Cooldown: when no proxy is working, the proxy get_proxy returns is not
\* one whose failures, as reported by the fetcher, number more than
\* FailureThreshold with the last of them less than 3600 s ago; and the entry
\* next in the rotation is returned as soon as it is not in cooldown, also
\* when its failure count is above the threshold.
C13_Cooldown ==
  (pm.use_proxies /\ pm.working = {} /\ pm.proxies # <<>>) =>
    LET g == get_proxy(pm).proxy
        candidate == pm.proxies[(pm.current_index % Len(pm.proxies)) + 1]
    IN  /\ ~InCooldown(pm, current_proxy_url(g))
        /\ ~InCooldown(pm, current_proxy_url(candidate)) => g = candidate

\* C16  Two tasks of one batch with different source URLs and the same
\* display name get different storage keys, the second in source order the
\* key of the first with the suffix -alt: so no two tasks of a window share a
\* key.
C16_DistinctKeys ==
  pc \in {"loop", "download", "upload"} =>
    \A a, b \in 1..Len(all_urls) :
      (a # b /\ all_urls[a].url # all_urls[b].url) =>
        TaskObjectKey(all_urls[a]) # TaskObjectKey(all_urls[b])

\* C17  The storage key of a task depends on its source URL's catalog row
\* (item type and display name) alone, not on process or ledger state: in
\* every state of every run, a run restarted after a crash included, a
\* catalog URL that the mapping (in memory or on disk) sends to an object
\* sends it to the object key derived from its row, whatever the mapping
\* held when the run started.
C17_KeyOf(u) ==
  ObjectKey(u.kind, create_seo_friendly_filename(u.kind,
              IF u.kind = "set" THEN SetName(u.n) ELSE MinifigName(u.n)))
C17_KeyIndependentOfState ==
  \A m \in {image_mapping, mappingFile} :
    \A u \in DOMAIN m :
      (u.t = "src" /\ m[u] # NoneUrl) => m[u] = PublicUrl(C17_KeyOf(u))

\* the run restarted after a crash (the first run stored an object and never
\* saved its mapping) is about to upload the same URL: the key it computed is
\* the key of the stored object
C17_Witness ==
  /\ pc = "upload"
  /\ hist.runs = 2
  /\ mappingFile = EmptyMap
  /\ all_urls[i].url = SrcUrl("minifig", 1)
  /\ r2 = {TaskObjectKey(all_urls[i])}

\* C19  Propagation correctness: when update_csv_with_new_urls replaces a
\* catalog file, the new file has the rows of the old one in the same order;
\* a row whose img_url X is a key of the mapping has img_url = mapping[X] and
\* is counted by updated_count, a row whose img_url is no key is the same row,
\* and the other columns (item number, name) of every row are the old ones.
C19_Propagation ==
  [][ (pc = "propagate" /\ update_step \in {"replace_sets", "replace_minifigs"}
         /\ pc' # "failed") =>
        LET f == UpdatedFile(update_step)
            old == Catalog(f)
            new == IF f = "sets" THEN setsCsv' ELSE minifigsCsv'
            mapped == {k \in 1..Len(old) : old[k].img_url \in DOMAIN mappingFile}
        IN  /\ Len(new) = Len(old)
            /\ \A k \in 1..Len(old) :
                 /\ new[k].num = old[k].num
                 /\ new[k].name = old[k].name
                 /\ k \in mapped => new[k].img_url = mappingFile[old[k].img_url]
                 /\ k \notin mapped => new[k] = old[k]
            /\ hist.run.updated_count[f] = Cardinality(mapped) ]_vars

\* sets.csv has been replaced: one row was rewritten and counted, the other
\* row had no mapping entry and is as it was
C19_Witness ==
  /\ pc = "propagate"
  /\ update_step = "write_minifigs"
  /\ hist.run.updated_count.sets = 1
  /\ \E a, b \in 1..Len(setsCsv) :
       /\ OriginalSetsCsv[a].img_url \in DOMAIN mappingFile
       /\ setsCsv[a].img_url = mappingFile[OriginalSetsCsv[a].img_url]
       /\ setsCsv[b] = OriginalSetsCsv[b]
       /\ OriginalSetsCsv[b].img_url \notin DOMAIN mappingFile

\* C20  Propagation is a rewrite-and-replace: while update_csv_with_new_urls
\* runs, and when the process dies at any of its steps, every step leaves each
\* catalog file as it was or replaces it by the complete rewritten rows; the
\* rows are written to the temporary file only, so no catalog file ever holds
\* a part of its rows.
C20_RewriteAndReplace ==
  /\ [][ pc = "propagate" =>
           /\ setsCsv' \in {setsCsv, UpdatedCsv(setsCsv, mappingFile)}
           /\ minifigsCsv' \in {minifigsCsv, UpdatedCsv(minifigsCsv, mappingFile)}
           /\ (update_step \in {"write_sets", "write_minifigs"} =>
                 UNCHANGED <<setsCsv, minifigsCsv>>) ]_vars
  /\ [](Len(setsCsv) = NumSets /\ Len(minifigsCsv) = NumMinifigs)

\* the process died while it wrote sets_updated.csv: one of the two rewritten
\* rows is in the temporary file and sets.csv is the complete old file
C20_Witness ==
  /\ pc = "failed"
  /\ tempCsv.sets.exists
  /\ Len(tempCsv.sets.rows) = 1
  /\ tempCsv.sets.rows[1] # setsCsv[1]
  /\ setsCsv = OriginalSetsCsv

\* ------------------------------------------------------------------------
\* File names with a view suffix: test_multiple_images of catalog/extract.py
\* and process_image_urls of backup/old_files_backup/extract_catalog_data.py,
\* which numbers the images of an item and downloads them in a thread pool.
\*
\* An item id is the sequence of its dash-separated parts (<<"10353">>,
\* <<"75192", "1">>, <<"fig", "000123">>).  The name and theme of an item are
\* fixed by its id, so a file name is its item type, item id and view suffix.
MaxRows == 3
MaxImages == 9

LegacySetIds == {<<"10353">>, <<"75192", "1">>}
LegacyMinifigId == <<"fig", "000123">>

\* f"-view{image_count}"
FormatView(n) == <<"-view4", "-view5", "-view6", "-view7", "-view8", "-view9">>[n - 3]

\* extract.py 855-866 and 884-895; extract_catalog_data.py 321-332, 358-369
view_suffix_numbered(image_count) ==
  IF image_count = 0 THEN "" ELSE FormatView(image_count + 3)
view_suffix(image_count) ==
  IF image_count > 0
  THEN IF image_count = 1 THEN "-alt"
       ELSE IF image_count = 2 THEN "-back"
       ELSE IF image_count = 3 THEN "-side"
       ELSE FormatView(image_count)
  ELSE ""

\* lego-<theme>-<name>-<item_id><view_suffix>.jpg (334-349),
\* lego-minifig-<name>-<item_id><view_suffix>.jpg (378)
LegacyFilename(item_type, item_id, image_count) ==
  [type |-> item_type, item |-> item_id, view |-> view_suffix(image_count)]
LegacyObjectKey(item_type, filename) == [type |-> item_type, file |-> filename]
LegacyPublicUrl(key) == [t |-> "cf", kind |-> key.type, n |-> key.file, v |-> 0]

\* 227-243: the item id read back from a mapped URL.  For a set the pattern
\* -([^-]+)\.jpg$ captures the last dash-separated part of the file name; for
\* a minifig -(fig-\d+)\.jpg$ matches only a name that ends with the fig number.
NoItem == <<>>
MappedItemId(mapped_url) ==
  LET file == mapped_url.n
  IN  IF mapped_url.kind = "set"
      THEN IF file.view # "" THEN <<file.view>> ELSE <<file.item[Len(file.item)]>>
      ELSE IF file.view = "" THEN file.item ELSE NoItem

CountOf(counts, item_id) == IF item_id \in DOMAIN counts THEN counts[item_id] ELSE 0

CountedItems(mapping) ==
  [item \in {MappedItemId(mapping[u]) : u \in DOMAIN mapping} \ {NoItem} |->
     Cardinality({u \in DOMAIN mapping : MappedItemId(mapping[u]) = item})]

\* 249-296: rows with a valid img_url that is neither a key nor a value of the
\* mapping, sets first
LegacyItems(sets, minifigs, mapping, minifigs_only) ==
  LET processed_urls == DOMAIN mapping \cup Range(mapping)
      rows(csv, kind) ==
        SelectSeq([k \in 1..Len(csv) |-> [url |-> csv[k].img_url, type |-> kind, id |-> csv[k].num]],
                  LAMBDA r : is_valid_image_url(r.url) /\ r.url \notin processed_urls)
  IN  (IF minifigs_only THEN <<>> ELSE rows(sets, "set")) \o rows(minifigs, "minifig")

\* sets.csv of the legacy runs: up to MaxRows image URLs of the two sets
LegacyCatalogs ==
  UNION {[1..n -> LegacySetIds] : n \in 1..MaxRows}
LegacySetsCsv(ids) ==
  [k \in 1..Len(ids) |-> [num |-> ids[k], name |-> 0, img_url |-> SrcUrl("set", k)]]
LegacyMinifigsCsv ==
  << [num |-> LegacyMinifigId, name |-> 0, img_url |-> SrcUrl("minifig", 1)] >>

LegacyInit ==
  /\ \E ids \in LegacyCatalogs : setsCsv = LegacySetsCsv(ids)
  /\ minifigsCsv = LegacyMinifigsCsv
  /\ mappingFile = EmptyMap
  /\ failedFile = <<>>
  /\ progressFile = [state |-> "absent", data |-> DefaultProgress]
  /\ truncated = {}
  /\ localFiles = {}
  /\ r2 = {}
  /\ proxiesFile = <<>>
  /\ pc = "idle"
  /\ args = IdleArgs
  /\ progress = DefaultProgress
  /\ pm = NoManager
  /\ image_mapping = EmptyMap
  /\ all_urls = <<>>
  /\ i = 0
  /\ retry_count = 0
  /\ successful = 0
  /\ failed = 0
  /\ skipped = 0
  /\ failed_downloads = <<>>
  /\ update_step = "write_sets"
  /\ tempCsv = NoTempFiles
  /\ processed_item_ids = EmptyCount
  /\ futures = <<>>
  /\ threads = <<>>
  /\ processedUrlsFile = NoLedger
  /\ printed = <<>>
  /\ image_files = {}
  /\ hist = [run |-> NoHistory, runs |-> 0, sumB |-> [c \in ItemClasses |-> 0]]

LegacyFrame ==
  UNCHANGED <<truncated, setsCsv, minifigsCsv, tempCsv, failedFile, progressFile, proxiesFile, args,
              progress, pm, retry_count, successful, failed, skipped, failed_downloads,
              update_step, image_files, threads, processedUrlsFile>>

\* process_image_urls(limit=None, minifigs_only) up to the executor (209-296)
legacy_process_image_urls ==
  /\ CanStart
  /\ \E minifigs_only \in BOOLEAN :
       all_urls' = LegacyItems(setsCsv, minifigsCsv, mappingFile, minifigs_only)
  /\ image_mapping' = mappingFile
  /\ processed_item_ids' = CountedItems(mappingFile)
  /\ futures' = <<>>
  /\ i' = 1
  /\ pc' = "submit"
  /\ hist' = Started
  /\ UNCHANGED <<mappingFile, localFiles, r2, printed>>
  /\ LegacyFrame

\* the image count that numbers the next image of an item (312-315)
ImageCountFinished(counts, item_id) ==
  Cardinality({k \in 1..Len(futures) : futures[k].item = item_id /\ futures[k].state # "running"})
ImageCount(counts, item_id) == CountOf(counts, item_id)

\* one iteration of "for item_data in items_with_images" (301-387): the file
\* name is made and the download is handed to the executor
executor_submit ==
  /\ pc = "submit"
  /\ i <= Len(all_urls)
  /\ LET task == all_urls[i]
         image_count == ImageCount(processed_item_ids, task.id)
         filename == LegacyFilename(task.type, task.id, image_count)
     IN  /\ image_count < MaxImages
         /\ processed_item_ids' =
              [item \in DOMAIN processed_item_ids \cup {task.id} |->
                 IF item = task.id THEN image_count + 1 ELSE processed_item_ids[item]]
         /\ futures' = Append(futures,
              [url |-> task.url, item |-> task.id, local_path |-> filename,
               r2_object_key |-> LegacyObjectKey(task.type, filename), state |-> "running"])
  /\ i' = i + 1
  /\ UNCHANGED <<mappingFile, localFiles, r2, printed, pc, image_mapping, all_urls, hist>>
  /\ LegacyFrame

\* the loop has submitted every item: "for future, ... in futures" begins (389)
executor_submitted ==
  /\ pc = "submit"
  /\ i > Len(all_urls)
  /\ pc' = "results"
  /\ i' = 1
  /\ UNCHANGED <<mappingFile, localFiles, r2, printed, image_mapping, all_urls,
                 processed_item_ids, futures, hist>>
  /\ LegacyFrame

\* a worker thread finishes download_and_optimize_image(img_url, local_path)
worker_download ==
  /\ pc \in {"submit", "results"}
  /\ \E k \in 1..Len(futures), ok \in BOOLEAN :
       /\ futures[k].state = "running"
       /\ futures' = [futures EXCEPT ![k].state = IF ok THEN "done" ELSE "failed"]
       /\ localFiles' = IF ok THEN localFiles \cup {futures[k].local_path} ELSE localFiles
  /\ UNCHANGED <<mappingFile, r2, printed, pc, image_mapping, all_urls, i,
                 processed_item_ids, hist>>
  /\ LegacyFrame

\* one iteration of the result loop (389-402): future.result() waits for the
\* download; a downloaded image is uploaded and mapped
future_result ==
  /\ pc = "results"
  /\ i <= Len(futures)
  /\ futures[i].state # "running"
  /\ IF futures[i].state = "done"
     THEN \E stored \in BOOLEAN :
            IF stored
            THEN /\ r2' = r2 \cup {futures[i].r2_object_key}
                 /\ image_mapping' = Put(image_mapping, futures[i].url,
                                         LegacyPublicUrl(futures[i].r2_object_key))
            ELSE UNCHANGED <<r2, image_mapping>>
     ELSE UNCHANGED <<r2, image_mapping>>
  /\ i' = i + 1
  /\ UNCHANGED <<mappingFile, localFiles, printed, pc, all_urls, processed_item_ids,
                 futures, hist>>
  /\ LegacyFrame

\* 404-408: the mapping is saved and process_image_urls returns
legacy_save ==
  /\ pc = "results"
  /\ i > Len(futures)
  /\ mappingFile' = image_mapping
  /\ image_mapping' = EmptyMap
  /\ all_urls' = <<>>
  /\ i' = 0
  /\ futures' = <<>>
  /\ processed_item_ids' = EmptyCount
  /\ pc' = "idle"
  /\ hist' = [hist EXCEPT !.run = NoHistory]
  /\ UNCHANGED <<localFiles, r2, printed>>
  /\ LegacyFrame

\* extract-catalog --test: test_multiple_images (793-903) prints the names of
\* six images of an example set and of an example minifig
TestExamples ==
  << [item_id |-> <<"75192", "1">>, item_type |-> "set"],
     [item_id |-> <<"fig", "000123">>, item_type |-> "minifig"] >>
test_multiple_images ==
  /\ pc = "idle"
  /\ printed' = [j \in 1..12 |->
                   LET example == TestExamples[((j - 1) \div 6) + 1]
                   IN  LegacyFilename(example.item_type, example.item_id, (j - 1) % 6)]
  /\ UNCHANGED <<mappingFile, localFiles, r2, pc, image_mapping, all_urls, i,
                 processed_item_ids, futures, hist>>
  /\ LegacyFrame

LegacyNext ==
  \/ legacy_process_image_urls
  \/ executor_submit
  \/ executor_submitted
  \/ worker_download
  \/ future_result
  \/ legacy_save
  \/ test_multiple_images

LegacySpec == LegacyInit /\ [][LegacyNext]_vars

\* C15  The view suffixes of the occurrence indices 0..5 are "", "-alt",
\* "-back", "-side", "-view4", "-view5": test_multiple_images prints the six
\* names of each example with these suffixes in this order, and the image of
\* an item that process_image_urls numbers n gets the n-th of them.
C15_SuffixSequence ==
  LET literal == <<"", "-alt", "-back", "-side", "-view4", "-view5">>
      seen(k) == CountOf(CountedItems(mappingFile), futures[k].item)
                   + Cardinality({j \in 1..(k - 1) : futures[j].item = futures[k].item})
  IN  /\ \A j \in 1..Len(printed) : printed[j].view = literal[((j - 1) % 6) + 1]
      /\ \A k \in 1..Len(futures) :
           /\ seen(k) \in 0..5
           /\ futures[k].local_path.view = literal[seen(k) + 1]

\* the six names of both examples are printed, and a run has submitted a
\* third image of one set
C15_Witness ==
  /\ Len(printed) = 12
  /\ printed[6].view = "-view5"
  /\ printed[10].view = "-side"
  /\ \E k \in 1..Len(futures) : futures[k].local_path.view = "-back"

\* C18  The occurrence index and the storage key of a task are fixed by the
\* scan in source order before the task is handed to the worker pool: in
\* every state of a run, whatever downloads have finished and in whatever
\* order, the k-th submitted task has the key of its item numbered by the
\* images the mapping held at the start plus the earlier tasks of the item,
\* and every URL mapped by the run is mapped to the URL of that key.
C18_Key(k) ==
  LegacyObjectKey(all_urls[k].type,
    LegacyFilename(all_urls[k].type, all_urls[k].id,
      CountOf(CountedItems(mappingFile), all_urls[k].id)
        + Cardinality({j \in 1..(k - 1) : all_urls[j].id = all_urls[k].id})))
C18_KeyFixedBeforeDispatch ==
  pc \in {"submit", "results"} =>
    /\ \A k \in 1..Len(futures) :
         /\ futures[k].url = all_urls[k].url
         /\ futures[k].r2_object_key = C18_Key(k)
         /\ (futures[k].url \in DOMAIN image_mapping \ DOMAIN mappingFile) =>
              /\ image_mapping[futures[k].url] = LegacyPublicUrl(C18_Key(k))
              /\ C18_Key(k) \in r2

\* the second image of a set finished its download and was uploaded while the
\* worker of a later task finished before the worker of an earlier one
C18_Witness ==
  /\ pc = "results"
  /\ Len(futures) = 4
  /\ i = 3
  /\ futures[1].item = futures[2].item
  /\ futures[2].r2_object_key.file.view = "-alt"
  /\ futures[2].url \in DOMAIN image_mapping
  /\ futures[3].state = "running"
  /\ futures[4].state = "done"

\* ------------------------------------------------------------------------
\* backup/old_files_backup/scrape_lego_direct.py: main hands process_url to a
\* ThreadPoolExecutor (968-975); every worker thread runs fetch_lego_product
\* on the one global proxy_manager.  ProxyManager has no lock, so the threads
\* interleave between the statements of mark_proxy_success (156-173) and
\* mark_proxy_failure (175-200).
MaxWorkers == 2

ThreadPools ==
  UNION {{[k \in 1..n |-> [id |-> k, form |-> f[k]]] : f \in [1..n -> {"http", "https"}]} :
         n \in 1..2}

\* a worker at the head of "while retry_count < max_retries" (259)
NewThread == [pc |-> "fetch", proxy |-> NoProxy, count |-> 0, retry_count |-> 0,
              reported |-> 0, succeeded |-> FALSE]

ThreadInit ==
  /\ setsCsv = OriginalSetsCsv
  /\ minifigsCsv = OriginalMinifigsCsv
  /\ mappingFile = EmptyMap
  /\ failedFile = <<>>
  /\ progressFile = [state |-> "absent", data |-> DefaultProgress]
  /\ truncated = {}
  /\ localFiles = {}
  /\ r2 = {}
  /\ proxiesFile \in ThreadPools
  /\ pc = "threads"
  /\ args = [IdleArgs EXCEPT !.cmd = "scrape", !.use_proxies = TRUE]
  /\ progress = DefaultProgress
  /\ pm \in {NewProxyManager(TRUE, FALSE, proxiesFile, order) : order \in Orders(proxiesFile)}
  /\ image_mapping = EmptyMap
  /\ all_urls = <<>>
  /\ i = 0
  /\ retry_count = 0
  /\ successful = 0
  /\ failed = 0
  /\ skipped = 0
  /\ failed_downloads = <<>>
  /\ update_step = "write_sets"
  /\ tempCsv = NoTempFiles
  /\ processed_item_ids = EmptyCount
  /\ futures = <<>>
  /\ threads = [t \in 1..MaxWorkers |-> NewThread]
  /\ processedUrlsFile = NoLedger
  /\ printed = <<>>
  /\ image_files = {}
  /\ hist = [run |-> NoHistory, runs |-> 0, sumB |-> [c \in ItemClasses |-> 0]]

ThreadFrame ==
  UNCHANGED <<durable, pc, args, progress, batch, image_files, processed_item_ids, futures,
              processedUrlsFile, printed, hist>>

\* fetch_lego_product after a failed attempt (432, 442, 452, 462, 470)
AfterFailure(th) ==
  [th EXCEPT !.retry_count = @ + 1,
             !.pc = IF RetryAgain(th.retry_count + 1) THEN "fetch" ELSE "returned"]

\* 261-276 and the outcome of requests.get: the thread takes a proxy and the
\* request succeeds (status 200) or fails
thread_fetch(t) ==
  /\ threads[t].pc = "fetch"
  /\ LET g == get_proxy(pm)
         url == current_proxy_url(g.proxy)
     IN  /\ pm' = [pm EXCEPT !.current_index = g.ci]
         /\ g.ci <= MaxIndex
         /\ \E ok \in BOOLEAN :
              threads' = [threads EXCEPT ![t] =
                IF url = NoProxy
                THEN IF ok THEN [@ EXCEPT !.pc = "returned"] ELSE AfterFailure(@)
                ELSE [@ EXCEPT !.proxy = url,
                               !.pc = IF ok THEN "success_add" ELSE "failure_remove"]]
  /\ ThreadFrame

\* mark_proxy_success 167: self.working_proxies.add(proxy_url)
success_add(t) ==
  /\ threads[t].pc = "success_add"
  /\ pm' = [pm EXCEPT !.working = @ \cup {threads[t].proxy}]
  /\ threads' = [threads EXCEPT ![t].pc = "success_del", ![t].succeeded = TRUE]
  /\ ThreadFrame

\* mark_proxy_success 170-171: the failure record is deleted; the page is
\* parsed and fetch_lego_product returns
success_del(t) ==
  /\ threads[t].pc = "success_del"
  /\ pm' = [pm EXCEPT !.failed = [q \in DOMAIN @ \ {threads[t].proxy} |-> @[q]]]
  /\ threads' = [threads EXCEPT ![t].pc = "returned"]
  /\ ThreadFrame

\* mark_proxy_failure 186-187: the proxy leaves the working set
failure_remove(t) ==
  /\ threads[t].pc = "failure_remove"
  /\ pm' = [pm EXCEPT !.working = @ \ {threads[t].proxy}]
  /\ threads' = [threads EXCEPT ![t].pc = "failure_check", ![t].reported = @ + 1]
  /\ ThreadFrame

\* mark_proxy_failure 191: "if proxy_url in self.failed_proxies"
failure_check(t) ==
  /\ threads[t].pc = "failure_check"
  /\ threads' = [threads EXCEPT ![t].pc =
                   IF threads[t].proxy \in DOMAIN pm.failed THEN "failure_read" ELSE "failure_new"]
  /\ UNCHANGED pm
  /\ ThreadFrame

\* 192, first half of "+= 1": the count is read; a record deleted since the
\* test raises KeyError, which leaves fetch_lego_product
failure_read(t) ==
  /\ threads[t].pc = "failure_read"
  /\ threads' = [threads EXCEPT ![t] =
                   IF threads[t].proxy \in DOMAIN pm.failed
                   THEN [@ EXCEPT !.pc = "failure_write", !.count = pm.failed[threads[t].proxy].count]
                   ELSE [@ EXCEPT !.pc = "returned"]]
  /\ UNCHANGED pm
  /\ ThreadFrame

\* 192-193, second half: the count read plus one is stored; a record deleted
\* since the read raises KeyError at 193
failure_write(t) ==
  /\ threads[t].pc = "failure_write"
  /\ LET p == threads[t].proxy
     IN  IF p \in DOMAIN pm.failed
         THEN /\ pm' = [pm EXCEPT !.failed[p] = [count |-> threads[t].count + 1, recent |-> TRUE]]
              /\ threads' = [threads EXCEPT ![t] = AfterFailure(@)]
         ELSE /\ threads' = [threads EXCEPT ![t].pc = "returned"]
              /\ UNCHANGED pm
  /\ ThreadFrame

\* 195-198: a new failure record with count 1 is stored
failure_new(t) ==
  /\ threads[t].pc = "failure_new"
  /\ LET p == threads[t].proxy
     IN  pm' = [pm EXCEPT !.failed = [q \in DOMAIN @ \cup {p} |->
                                        IF q = p THEN [count |-> 1, recent |-> TRUE] ELSE @[q]]]
  /\ threads' = [threads EXCEPT ![t] = AfterFailure(@)]
  /\ ThreadFrame

ThreadNext ==
  \E t \in 1..MaxWorkers :
    \/ thread_fetch(t)
    \/ success_add(t)
    \/ success_del(t)
    \/ failure_remove(t)
    \/ failure_check(t)
    \/ failure_read(t)
    \/ failure_write(t)
    \/ failure_new(t)

ThreadSpec == ThreadInit /\ [][ThreadNext]_vars

RECURSIVE SumCounts(_, _)
SumCounts(f, S) ==
  IF S = {} THEN 0
  ELSE LET p == CHOOSE q \in S : TRUE IN f[p].count + SumCounts(f, S \ {p})

RECURSIVE SumReported(_)
SumReported(n) == IF n = 0 THEN 0 ELSE threads[n].reported + SumReported(n - 1)

\* C14  Parallel workers on one proxy pool: whenever no worker is inside
\* mark_proxy_success or mark_proxy_failure, no endpoint is in both the
\* working set and the failed set, and as long as no worker has reported a
\* success the failure counts add up to the failures the workers reported.
C14_SingleWriter ==
  (\A t \in 1..MaxWorkers : threads[t].pc \in {"fetch", "returned"}) =>
    /\ pm.working \cap DOMAIN pm.failed = {}
    /\ (\A t \in 1..MaxWorkers : ~threads[t].succeeded) =>
         SumCounts(pm.failed, DOMAIN pm.failed)
           = SumReported(MaxWorkers)

\* ------------------------------------------------------ claims C21 .. C30
\* C21  Atomic mapping save: after every step image_mapping.json is readable
\* and holds either what it held before the step or the whole mapping the
\* run was saving.
C21_AtomicMappingSave ==
  [][ /\ "mapping" \notin truncated'
      /\ mappingFile' \in {mappingFile, image_mapping} ]_vars

\* C22  While image_mapping.json is unreadable no command is past its start:
\* no fetch and no upload is made, the file, the local images and the bucket
\* stay as they are, and every continue run and every rebuild that is
\* started ends at once with the error; an extract command does so unless
\* its flags select nothing that reads the mapping.
C22_RefusesUnreadableMapping ==
  /\ []("mapping" \in truncated =>
          /\ pc \in {"idle", "done", "failed"}
          /\ hist.run.calls = {}
          /\ hist.run.requests = {})
  /\ []["mapping" \in truncated =>
          /\ mappingFile' = mappingFile
          /\ "mapping" \in truncated'
          /\ r2' = r2
          /\ localFiles' = localFiles
          /\ progressFile' = progressFile \/ args'.cmd \in {"reset", "reset_all"}]_vars
  /\ [][("mapping" \in truncated /\ pc = "idle" /\ pc' # "idle") =>
          \/ pc' = "failed"
          \/ pc' = "done" /\ args'.cmd \in {"extract", "reset", "reset_all"}]_vars

\* a continue run was refused: the mapping was cut by an interrupted save
\* after images had been fetched and uploaded
C22_Witness ==
  /\ pc = "failed"
  /\ "mapping" \in truncated
  /\ args.cmd \in ContinueCmds
  /\ r2 # {}
  /\ localFiles # {}

\* C23  A continue run that finds extract_progress.json unreadable is over
\* at once: it is never inside the batch run, the propagation or the advance,
\* and the checkpoint file stays as it is.
C23_UnreadableCheckpointFatal ==
  /\ [](progressFile.state = "corrupt" /\ args.cmd \in ContinueCmds => pc = "failed")
  /\ [][progressFile.state = "corrupt" /\ args.cmd \in ContinueCmds =>
          progressFile' = progressFile]_vars

\* C24  Append-only failure log: every step leaves in failed_downloads.json
\* the records it held before the step, in their order, followed by the
\* records the step added.
C24_FailureLogAppendOnly ==
  [][ /\ Len(failedFile') >= Len(failedFile)
      /\ SubSeq(failedFile', 1, Len(failedFile)) = failedFile ]_vars

\* C25  Dry run: no step of a dry run fetches, uploads, or changes the local
\* images or the bucket; when process_image_urls returns, every task of the
\* window is counted successful and none failed, the URLs mapped before keep
\* their entries, and every other URL of the window is mapped to the public
\* URL of the key derived for its task.
C25_DryRun ==
  /\ [](args.dry_run =>
          /\ hist.run.calls = {}
          /\ hist.run.requests = {}
          /\ failed = 0
          /\ failed_downloads = <<>>
          /\ pc \notin {"download", "upload"})
  /\ [][args.dry_run => r2' = r2 /\ localFiles' = localFiles]_vars
  /\ [](args.dry_run /\ pc = "propagate" =>
          /\ successful = Len(all_urls)
          /\ mappingFile = image_mapping
          /\ failedFile = hist.run.failedAtStart
          /\ DOMAIN image_mapping =
               DOMAIN hist.run.mappingAtStart \cup {all_urls[k].url : k \in 1..Len(all_urls)}
          /\ \A k \in 1..Len(all_urls) :
               image_mapping[all_urls[k].url] =
                 IF all_urls[k].url \in DOMAIN hist.run.mappingAtStart
                 THEN hist.run.mappingAtStart[all_urls[k].url]
                 ELSE PublicUrl(TaskObjectKey(all_urls[k])))

\* a dry run over two tasks, one mapped by an earlier run and one not, of
\* which no image is stored
C25_Witness ==
  /\ args.dry_run
  /\ pc = "propagate"
  /\ Len(all_urls) = 2
  /\ skipped = 1
  /\ successful = 2
  /\ \E k \in 1..2 : /\ all_urls[k].url \notin DOMAIN hist.run.mappingAtStart
                     /\ TaskObjectKey(all_urls[k]) \notin r2

\* C26  The mapping file changes only in the save at the end of the batch (or
\* of the rebuild).  While a batch is in its loop the mapping file and the
\* checkpoint are what they were when the run started, and a crash there
\* leaves both files as they are; the next continue run of the same class and
\* batch size then takes the same window, in which the tasks whose results
\* the crashed run held only in memory are unmapped.
C26_SavedAtBatchBoundary ==
  /\ [][mappingFile' # mappingFile =>
          \/ pc = "loop" /\ i > Len(all_urls)
          \/ pc = "rebuild" /\ image_files = {}]_vars
  /\ [](pc \in {"loop", "download", "upload"} =>
          /\ mappingFile = hist.run.mappingAtStart
          /\ load_progress(progressFile) = hist.run.ckptAtStart)
  /\ [][(pc \in {"loop", "download", "upload"} /\ pc' = "failed") =>
          /\ mappingFile' = mappingFile
          /\ progressFile' = progressFile
          /\ truncated' = truncated
          /\ args.cmd \in ContinueCmds =>
               \E item_type \in ItemClasses, batch_size \in 1..MaxBatch :
                 /\ item_type = args.item_type
                 /\ batch_size = args.batch_size
                 /\ ScanWindow(OriginalSetsCsv, OriginalMinifigsCsv, item_type = "minifigs", 0,
                               load_progress(progressFile')[item_type].last_index,
                               batch_size) = all_urls
                 /\ \A k \in 1..Len(all_urls) :
                      all_urls[k].url \notin DOMAIN hist.run.mappingAtStart =>
                        all_urls[k].url \notin DOMAIN mappingFile']_vars

\* the first run, a continue run, crashed after it had uploaded an image and
\* before it saved the mapping
C26_Witness ==
  /\ pc = "failed"
  /\ args.cmd \in ContinueCmds
  /\ hist.runs = 1
  /\ r2 # {}
  /\ mappingFile = EmptyMap
  /\ truncated = {}
  /\ progressFile.state = "absent"

\* C27  One report per proxied attempt: an attempt that went through proxy p
\* leaves the proxy manager as mark_proxy_success(p) leaves it when the image
\* was saved, and as mark_proxy_failure(p) leaves it when the attempt failed.
C27_OneReportPerAttempt ==
  [][( /\ pc = "download"
       /\ pm.use_proxies
       /\ get_proxy(pm).proxy # NoProxy
       /\ <<pc, i, retry_count>>' # <<pc, i, retry_count>>
       /\ pc' # "failed" ) =>
       LET g == get_proxy(pm)
           m1 == [pm EXCEPT !.current_index = g.ci]
           p == current_proxy_url(g.proxy)
       IN  pm' = IF pc' = "upload" THEN mark_proxy_success(m1, p)
                 ELSE mark_proxy_failure(m1, p)]_vars

\* C28  Round robin: when the working set has k entries and get_proxy was
\* called k times or more since the set last changed, the last k calls
\* returned k different proxies, each entry of the working set once.
C28_RoundRobin ==
  LET k == Cardinality(pm.working)
      served == hist.run.served
  IN  (pc = "pool" /\ k > 0 /\ Len(served) >= k) =>
        /\ {served[j] : j \in 1..Len(served)} = pm.working
        /\ \A a, b \in 1..Len(served) : served[a] = served[b] => a = b

\* three working proxies, and get_proxy called five times since they were
\* found working: the rotation went round once and is in its second round
C28_Witness ==
  /\ pc = "pool"
  /\ Cardinality(pm.working) = PoolSize
  /\ Len(hist.run.served) = PoolSize
  /\ pm.current_index = PoolSize + 2

\* C29  Backoff: a download that is about to make attempt k + 1 (k = 1, 2)
\* slept 2 * k seconds at the end of failed attempt k, no sleep precedes the
\* first attempt, and nothing is slept after the third failed attempt or
\* after an attempt that succeeded.
C29_Backoff ==
  /\ pc = "download" =>
       /\ retry_count < max_retries
       /\ hist.run.slept = 2 * retry_count
  /\ pc # "download" => hist.run.slept = 0

\* two attempts of a download have failed and the third is about to be made
C29_Witness ==
  /\ pc = "download"
  /\ retry_count = 2
  /\ hist.run.slept = 4
  /\ Cardinality(hist.run.requests) > 0

MaxNameLen == 2
NameLimit == 50
NameChars == {"a", "B", " ", "-", "!"}
Names == UNION {[1..n -> NameChars] : n \in 0..MaxNameLen}

\* name.lower().replace(' ', '-') (316)
Lowered(name) ==
  [k \in 1..Len(name) |-> IF name[k] = " " THEN "-"
                          ELSE IF name[k] = "B" THEN "b" ELSE name[k]]
\* re.sub(r'[^a-z0-9-]', '', clean_name) (318)
Alphanumeric(s) == SelectSeq(s, LAMBDA c : c \in {"a", "b", "-"})
\* re.sub(r'-+', '-', clean_name) (320)
RECURSIVE SingleHyphens(_)
SingleHyphens(s) ==
  IF Len(s) < 2 THEN s
  ELSE IF s[1] = "-" /\ s[2] = "-" THEN SingleHyphens(Tail(s))
  ELSE <<s[1]>> \o SingleHyphens(Tail(s))
\* clean_name.strip('-') (322)
RECURSIVE StripLeft(_)
StripLeft(s) == IF s # <<>> /\ Head(s) = "-" THEN StripLeft(Tail(s)) ELSE s
RECURSIVE StripRight(_)
StripRight(s) ==
  IF s # <<>> /\ s[Len(s)] = "-" THEN StripRight(SubSeq(s, 1, Len(s) - 1)) ELSE s
\* 314-328
clean_name(name) ==
  LET stripped == StripRight(StripLeft(SingleHyphens(Alphanumeric(Lowered(name)))))
  IN  SubSeq(stripped, 1, Min(Len(stripped), NameLimit))

\* the prefix process_image_urls passes (607, 611); the sets are of one theme
Prefix(item_type) == IF item_type = "set" THEN <<"lego-theme-">> ELSE <<"lego-minifig-">>
\* os.path.splitext of the URL's base name (296-304): every catalog image is a .jpg
Extension(url) == <<".jpg">>
\* "-".join(components) (331)
RECURSIVE Joined(_)
Joined(components) ==
  IF components = <<>> THEN <<>>
  ELSE IF Len(components) = 1 THEN Head(components)
  ELSE Head(components) \o <<"-">> \o Joined(Tail(components))
\* 306-334: the prefix when there is one, the cleaned name when a name was
\* given, joined, and the extension
SeoFriendlyFilename(url, prefix, name) ==
  LET components == (IF prefix # <<>> THEN <<prefix>> ELSE <<>>) \o
                    (IF name # <<>> THEN <<clean_name(name)>> ELSE <<>>)
  IN  Joined(components) \o Extension(url)

\* process_image_urls 603-613, 627-630: the key of a task with that name
NamedTasks ==
  {[url |-> SrcUrl(item_type, id), type |-> item_type, id |-> id, name |-> name] :
     item_type \in {"set", "minifig"}, id \in 1..2, name \in Names}
NamedKey(task) ==
  ObjectKey(task.type, SeoFriendlyFilename(task.url, Prefix(task.type), task.name))

KeyInit ==
  /\ setsCsv = OriginalSetsCsv
  /\ minifigsCsv = OriginalMinifigsCsv
  /\ mappingFile = EmptyMap
  /\ failedFile = <<>>
  /\ progressFile = [state |-> "absent", data |-> DefaultProgress]
  /\ truncated = {}
  /\ localFiles = {}
  /\ r2 = {}
  /\ proxiesFile = <<>>
  /\ pc = "keys"
  /\ args = [IdleArgs EXCEPT !.cmd = "extract"]
  /\ progress = DefaultProgress
  /\ pm = NoManager
  /\ image_mapping = EmptyMap
  /\ all_urls \in {<<a, b>> : a \in {t \in NamedTasks : t.id = 1},
                              b \in {t \in NamedTasks : t.id = 2}}
  /\ i = 1
  /\ retry_count = 0
  /\ successful = 0
  /\ failed = 0
  /\ skipped = 0
  /\ failed_downloads = <<>>
  /\ update_step = "write_sets"
  /\ tempCsv = NoTempFiles
  /\ processed_item_ids = EmptyCount
  /\ futures = <<>>
  /\ threads = <<>>
  /\ processedUrlsFile = NoLedger
  /\ printed = <<>>
  /\ image_files = {}
  /\ hist = [run |-> NoHistory, runs |-> 0, sumB |-> [c \in ItemClasses |-> 0]]

\* one iteration of the loop up to the object key (591-630)
derive_key ==
  /\ pc = "keys"
  /\ i <= Len(all_urls)
  /\ printed' = Append(printed, NamedKey(all_urls[i]))
  /\ i' = i + 1
  /\ UNCHANGED <<durable, pc, args, progress, pm, image_mapping, all_urls, retry_count,
                 successful, failed, skipped, failed_downloads, update_step, image_files,
                 executor, hist>>

KeyNext == derive_key
KeySpec == KeyInit /\ [][KeyNext]_vars

\* C31  Key fallback: two tasks with different source URLs whose display
\* names are empty or hold no letter or digit get different keys.
C31_KeyFallback ==
  ( /\ pc = "keys"
    /\ Len(printed) = 2
    /\ all_urls[1].url # all_urls[2].url
    /\ clean_name(all_urls[1].name) = <<>>
    /\ clean_name(all_urls[2].name) = <<>> ) =>
    printed[1] # printed[2]

\* C32  Injective mapping: in image_mapping.json two different source URLs
\* never have the same asset URL.
C32_InjectiveMapping ==
  \A u, v \in DOMAIN mappingFile :
    u # v => mappingFile[u] # mappingFile[v]

\* C33  Mapped means uploaded: every value of image_mapping.json is the
\* public URL of an object that is in the bucket.
C33_MappedMeansUploaded ==
  \A u \in DOMAIN mappingFile :
    \E key \in r2 : mappingFile[u] = PublicUrl(key)

\* C35  Class isolation of checkpoints: the window of a continue run for
\* item class sets holds set rows only, and the window of a continue run for
\* item class minifigs holds minifig rows only.
C35_ClassIsolation ==
  (args.cmd \in ContinueCmds /\ pc = "loop") =>
    \A k \in 1..Len(all_urls) :
      all_urls[k].type = (IF args.item_type = "sets" THEN "set" ELSE "minifig")

\* C34  Coverage of resumption: when the first continue run after a reset
\* checkpoint has advanced the checkpoint of its item class by the batch
\* size, every catalog row of that class that the new index has passed was in
\* the window of the run.
C34_NoRowPassedOver ==
  ( /\ args.cmd \in ContinueCmds
    /\ pc = "done"
    /\ hist.runs = 1
    /\ load_progress(progressFile)[args.item_type].last_index = args.batch_size ) =>
    LET rows == IF args.item_type = "sets"
                THEN CollectUrls(OriginalSetsCsv, "set")
                ELSE CollectUrls(OriginalMinifigsCsv, "minifig")
    IN  \A k \in 1..Min(args.batch_size, Len(rows)) :
          \E j \in 1..Len(all_urls) : all_urls[j] = rows[k]

\* C36  Proxy state invariant: no endpoint is in both the working set and the
\* failed set, an endpoint has a failure record exactly when it has been
\* reported failed since its last success report, and the count of the record
\* is the number of those failure reports.
C36_ProxyState ==
  pc = "pool" =>
    /\ pm.working \cap DOMAIN pm.failed = {}
    /\ DOMAIN pm.failed = DOMAIN hist.run.since
    /\ \A p \in DOMAIN pm.failed : pm.failed[p].count = hist.run.since[p]

\* one endpoint is working after a success report and another has been
\* reported failed twice in a row
C36_Witness ==
  /\ pc = "pool"
  /\ pm.working # {}
  /\ \E p \in DOMAIN pm.failed : pm.failed[p].count = 2 /\ hist.run.since[p] = 2

\* C37  Rebuild records no failed upload: every value stored in
\* image_mapping.json is an asset URL, never the empty result of an upload
\* that failed.
C37_NoFailedUploadRecorded ==
  \A u \in DOMAIN mappingFile : mappingFile[u] # NoneUrl

\* C38  Propagation is idempotent: for every catalog file and mapping file
\* the program can have, rewriting the rows of the file twice with the
\* mapping gives the rows that rewriting them once gives.
C38_PropagationIdempotent ==
  \A csv \in {setsCsv, minifigsCsv} :
    UpdatedCsv(UpdatedCsv(csv, mappingFile), mappingFile) = UpdatedCsv(csv, mappingFile)

\* update_csv_with_new_urls is rewriting a catalog that an earlier run has
\* already rewritten: a row holds an asset URL and the mapping still has the
\* entry of the row's source URL
C38_Witness ==
  /\ pc = "propagate"
  /\ update_step = "replace_sets"
  /\ hist.runs = 2
  /\ \E k \in 1..Len(setsCsv) :
       /\ IsCloudflareUrl(setsCsv[k].img_url)
       /\ OriginalSetsCsv[k].img_url \in DOMAIN mappingFile
       /\ tempCsv["sets"].rows[k] = setsCsv[k]
  /\ \E k \in 1..Len(setsCsv) : setsCsv[k].img_url \in DOMAIN mappingFile

\* ------------------------------------------------------------------------
\* backup/old_files_backup/scrape_lego_direct.py: the processed-URL ledger.
\* main submits process_url for every URL of the input file to a
\* ThreadPoolExecutor (972-973); every worker ends process_url with
\* update_processed_urls (713-733), which loads processed_urls.json, adds
\* the entry of its URL and writes the file in place.  There is no lock, so
\* the workers interleave between the load, the open and the dump.
NumUrls == 3
ProductUrl(k) == [t |-> "lego", kind |-> "product", n |-> k, v |-> 0]

\* load_urls_from_json (870-900): the URLs of the input file
ProductUrls == [k \in 1..NumUrls |-> ProductUrl(k)]

\* the ledgers an earlier run of the scraper can have left: an entry holds
\* whether the URL was processed with success (724-729)
Ledgers ==
  UNION {[S -> BOOLEAN] : S \in SUBSET Range(ProductUrls)}

\* load_processed_urls (696-711): {} when the file is absent, and {} when
\* json.load fails on it (JSONDecodeError is caught at 707)
load_processed_urls(file) == IF file.state = "ok" THEN file.data ELSE EmptyLedger

\* a worker thread of the executor with no task
IdleWorker == [pc |-> "idle", url |-> NoneUrl, processed_urls |-> EmptyLedger,
               success |-> FALSE]

ScrapeArgs(skip_processed) ==
  [cmd |-> "scrape", item_type |-> "sets", batch_size |-> 0, dry_run |-> FALSE,
   force_upload |-> FALSE, use_proxies |-> FALSE, force_own_ip |-> FALSE,
   skip_processed |-> skip_processed]

LedgerInit ==
  /\ setsCsv = OriginalSetsCsv
  /\ minifigsCsv = OriginalMinifigsCsv
  /\ mappingFile = EmptyMap
  /\ failedFile = <<>>
  /\ progressFile = [state |-> "absent", data |-> DefaultProgress]
  /\ truncated = {}
  /\ localFiles = {}
  /\ r2 = {}
  /\ proxiesFile = <<>>
  /\ pc = "scrape"
  /\ args \in {ScrapeArgs(skip_processed) : skip_processed \in BOOLEAN}
  /\ progress = DefaultProgress
  /\ pm = NoManager
  /\ image_mapping = EmptyMap
  /\ all_urls = ProductUrls
  /\ i = 1
  /\ retry_count = 0
  /\ successful = 0
  /\ failed = 0
  /\ skipped = 0
  /\ failed_downloads = <<>>
  /\ update_step = "write_sets"
  /\ tempCsv = NoTempFiles
  /\ processed_item_ids = EmptyCount
  /\ futures = <<>>
  /\ threads = [t \in 1..MaxWorkers |-> IdleWorker]
  /\ processedUrlsFile \in {NoLedger} \cup {[state |-> "ok", data |-> l] : l \in Ledgers}
  /\ printed = <<>>
  /\ image_files = {}
  /\ hist = [run |-> NoHistory, runs |-> 0, sumB |-> [c \in ItemClasses |-> 0]]

LedgerFrame ==
  UNCHANGED <<durable, pc, args, progress, pm, image_mapping, all_urls, retry_count,
              successful, failed, skipped, failed_downloads, update_step, image_files,
              processed_item_ids, futures, hist>>

\* the result main collects from the future (975-978)
Result(url, success, was_skipped) == [url |-> url, success |-> success, skipped |-> was_skipped]

\* a free worker takes the next submitted task and enters process_url (973,
\* 735-752)
worker_start(t) ==
  /\ pc = "scrape"
  /\ threads[t].pc = "idle"
  /\ i <= Len(all_urls)
  /\ threads' = [threads EXCEPT ![t] =
                   [IdleWorker EXCEPT !.url = all_urls[i],
                                      !.pc = IF args.skip_processed THEN "check" ELSE "fetch"]]
  /\ i' = i + 1
  /\ UNCHANGED <<processedUrlsFile, printed>>
  /\ LedgerFrame

\* 752-762: with --skip-processed a URL the ledger holds as a success is
\* returned as skipped, and the ledger is not written
check_processed(t) ==
  /\ pc = "scrape"
  /\ threads[t].pc = "check"
  /\ LET processed_urls == load_processed_urls(processedUrlsFile)
         url == threads[t].url
     IN  IF url \in DOMAIN processed_urls /\ processed_urls[url]
         THEN /\ threads' = [threads EXCEPT ![t] = IdleWorker]
              /\ printed' = Append(printed, Result(url, TRUE, TRUE))
         ELSE /\ threads' = [threads EXCEPT ![t].pc = "fetch"]
              /\ UNCHANGED printed
  /\ UNCHANGED <<processedUrlsFile, i>>
  /\ LedgerFrame

\* 765-857, 861-866: the product is fetched and stored, or an error is the
\* result; every way out calls update_processed_urls
fetch_product(t) ==
  /\ pc = "scrape"
  /\ threads[t].pc = "fetch"
  /\ \E success \in BOOLEAN :
       threads' = [threads EXCEPT ![t].success = success, ![t].pc = "load"]
  /\ UNCHANGED <<processedUrlsFile, printed, i>>
  /\ LedgerFrame

\* update_processed_urls 721-729: the ledger is loaded and the entry of the
\* URL is put into the loaded dict
ledger_load(t) ==
  /\ pc = "scrape"
  /\ threads[t].pc = "load"
  /\ threads' = [threads EXCEPT
                   ![t].processed_urls =
                      Put(load_processed_urls(processedUrlsFile), threads[t].url,
                          threads[t].success),
                   ![t].pc = "open"]
  /\ UNCHANGED <<processedUrlsFile, printed, i>>
  /\ LedgerFrame

\* 732: open(PROCESSED_URLS_FILE, 'w') empties the file
ledger_open(t) ==
  /\ pc = "scrape"
  /\ threads[t].pc = "open"
  /\ processedUrlsFile' = [state |-> "partial", data |-> EmptyLedger]
  /\ threads' = [threads EXCEPT ![t].pc = "dump"]
  /\ UNCHANGED <<printed, i>>
  /\ LedgerFrame

\* 733 and the end of the with block: the dict is written from the start of
\* the file and process_url returns its result.  When another worker wrote
\* the file after this worker opened it, the text of this worker replaces
\* the start of that text: the file holds this worker's dict, or, when the
\* other text was longer, a text json.load cannot read.
ledger_dump(t) ==
  /\ pc = "scrape"
  /\ threads[t].pc = "dump"
  /\ \/ processedUrlsFile' = [state |-> "ok", data |-> threads[t].processed_urls]
     \/ /\ processedUrlsFile.state = "ok"
        /\ processedUrlsFile' = [state |-> "partial", data |-> EmptyLedger]
  /\ printed' = Append(printed, Result(threads[t].url, threads[t].success, FALSE))
  /\ threads' = [threads EXCEPT ![t] = IdleWorker]
  /\ UNCHANGED i
  /\ LedgerFrame

LedgerNext ==
  \E t \in 1..MaxWorkers :
    \/ worker_start(t)
    \/ check_processed(t)
    \/ fetch_product(t)
    \/ ledger_load(t)
    \/ ledger_open(t)
    \/ ledger_dump(t)

LedgerSpec == LedgerInit /\ [][LedgerNext]_vars

\* C39  Processed-URL ledger under the parallel scraper: when the pool has
\* finished, processed_urls.json is readable and has an entry for every URL
\* that a worker processed (every result that is not a skip).
C39_LedgerComplete ==
  ( /\ pc = "scrape"
    /\ i > Len(all_urls)
    /\ \A t \in 1..MaxWorkers : threads[t].pc = "idle" ) =>
    \A k \in 1..Len(printed) :
      ~printed[k].skipped =>
        /\ processedUrlsFile.state = "ok"
        /\ printed[k].url \in DOMAIN processedUrlsFile.data

====
